---------------------------- MODULE Spec2Model ----------------------------
(***************************************************************************)
(* Learning core of the race coaching system: the Segment Statistics       *)
(* Store (src/learning/segment_stats.py), the Blend Engine                 *)
(* (src/learning/blend_engine.py) and the Decay Manager                    *)
(* (src/learning/decay_manager.py).                                        *)
(*                                                                         *)
(* Python floats are modelled as exact rationals <<numerator,              *)
(* denominator>> in lowest terms with a positive denominator, so that      *)
(* every comparison the code makes (>= 3.0, < 0.7, learned > ceiling) is   *)
(* decided on the exact value.  The only inexact operation is the square   *)
(* root inside numpy.std, which is taken to 1/SqrtRes, rounded down.       *)
(* Optional[X] is a sequence of length 0 (None) or 1.                      *)
(***************************************************************************)
EXTENDS Integers, Sequences, FiniteSets, TLC

VARIABLES
    max_observations,     \* SegmentStatsStore._max_observations : capacity of a window
    observations,         \* SegmentStatsStore._observations : segment id -> window
    stats,                \* SegmentStatsStore._stats : segment id -> SegmentStatistics
    previous_conditions,  \* DecayManager._previous_conditions : Optional[ConditionState]
    decay_history,        \* DecayManager._decay_history : the triggers recorded
    lastCall,             \* the last public call made, its argument and its return value
    config,               \* BlendEngine.config : BlendConfig
    physics_value,        \* the physics envelope's ceiling (km/h) or minimum (m)
    stats_arg,            \* the segment_stats a blend is called with : Optional[SegmentStatistics]
    result,               \* the last blend call and the BlendResult it returned
    segment_envelopes,    \* EnvelopeManager._segment_envelopes, in insertion order
    track_length_m,       \* EnvelopeManager._track_length_m
    engine,               \* VoiceArbitrationEngine: queue, last spoken, phase, speaking
    cognitive,            \* CognitiveLoadModel: last message time and message counters
    lap_data,             \* the lap handed to LapValidator.validate_lap
    controller,           \* ModeController: modes, reported state, mode history
    mode_trace,           \* what was reported to and forced on the controller so far
    loop,                 \* MainLoop: state, metrics, error tracking
    callbacks,            \* MainLoop: the behaviour of the callback of each phase
    failing_streak        \* the iterations in a row in which a callback raised

storeVars == <<observations, stats>>
decayVars == <<previous_conditions, decay_history>>
blendVars == <<config, physics_value, stats_arg, result>>
learningVars == <<max_observations, storeVars, decayVars, blendVars>>
envelopeVars == <<segment_envelopes, track_length_m>>
voiceVars == <<engine, cognitive>>
modeVars == <<controller, mode_trace>>
loopVars == <<loop, callbacks, failing_streak>>
runtimeVars == <<modeVars, loopVars>>
vars == <<max_observations, observations, stats, previous_conditions, decay_history,
          lastCall, config, physics_value, stats_arg, result,
          segment_envelopes, track_length_m, engine, cognitive, lap_data,
          controller, mode_trace, loop, callbacks, failing_streak>>

None == <<>>
Some(x) == <<x>>

-----------------------------------------------------------------------------
(* Exact rational arithmetic standing for float arithmetic.                *)

Abs(i) == IF i < 0 THEN -i ELSE i

RECURSIVE GCD(_, _)
GCD(a, b) == IF b = 0 THEN a ELSE GCD(b, a % b)

R(n, d) ==
    LET s == IF d < 0 THEN -1 ELSE 1
        g == GCD(Abs(n), Abs(d))
    IN  IF n = 0 THEN <<0, 1>> ELSE <<(s * n) \div g, (s * d) \div g>>

I(n) == <<n, 1>>

RAdd(a, b) ==
    LET g == GCD(a[2], b[2])
    IN  R(a[1] * (b[2] \div g) + b[1] * (a[2] \div g), a[2] * (b[2] \div g))

RNeg(a) == <<-a[1], a[2]>>

RSub(a, b) == RAdd(a, RNeg(b))

RMul(a, b) ==
    LET g1 == GCD(Abs(a[1]), b[2])
        g2 == GCD(Abs(b[1]), a[2])
    IN  <<(a[1] \div g1) * (b[1] \div g2), (a[2] \div g2) * (b[2] \div g1)>>

RDiv(a, b) == RMul(a, IF b[1] < 0 THEN <<-b[2], -b[1]>> ELSE <<b[2], b[1]>>)

RLe(a, b) == a[1] * b[2] <= b[1] * a[2]

RLt(a, b) == a[1] * b[2] < b[1] * a[2]

RMin(a, b) == IF RLe(a, b) THEN a ELSE b

RMax(a, b) == IF RLe(a, b) THEN b ELSE a

Zero == I(0)

One == I(1)

\* Resolution of the square root in numpy.std: results are multiples of 1/SqrtRes.
SqrtRes == 10

RECURSIVE ISqrtIn(_, _, _)
ISqrtIn(n, lo, hi) ==
    IF lo >= hi THEN lo
    ELSE LET mid == (lo + hi + 1) \div 2
         IN  IF mid * mid <= n THEN ISqrtIn(n, mid, hi) ELSE ISqrtIn(n, lo, mid - 1)

\* The largest r with r * r <= n
ISqrt(n) == ISqrtIn(n, 0, IF n < 4096 THEN n ELSE 4096)

RSqrt(q) == IF q[1] <= 0 THEN Zero
            ELSE R(ISqrt((q[1] * SqrtRes * SqrtRes) \div q[2]), SqrtRes)

\* sum, max and min of xs[lo..hi], splitting the range in halves
RECURSIVE SumRange(_, _, _)
SumRange(xs, lo, hi) ==
    IF lo > hi THEN Zero
    ELSE IF lo = hi THEN xs[lo]
    ELSE LET mid == (lo + hi) \div 2
         IN  RAdd(SumRange(xs, lo, mid), SumRange(xs, mid + 1, hi))

RECURSIVE MaxRange(_, _, _)
MaxRange(xs, lo, hi) ==
    IF lo = hi THEN xs[lo]
    ELSE LET mid == (lo + hi) \div 2
         IN  RMax(MaxRange(xs, lo, mid), MaxRange(xs, mid + 1, hi))

RECURSIVE MinRange(_, _, _)
MinRange(xs, lo, hi) ==
    IF lo = hi THEN xs[lo]
    ELSE LET mid == (lo + hi) \div 2
         IN  RMin(MinRange(xs, lo, mid), MinRange(xs, mid + 1, hi))

SumSeq(xs) == SumRange(xs, 1, Len(xs))

MaxSeq(xs) == MaxRange(xs, 1, Len(xs))

MinSeq(xs) == MinRange(xs, 1, Len(xs))

\* numpy.mean
MeanSeq(xs) == RDiv(SumSeq(xs), I(Len(xs)))

\* numpy.std (population standard deviation): sqrt(mean(x^2) - mean(x)^2)
StdSeq(xs) ==
    LET m == MeanSeq(xs)
        sq == [i \in 1..Len(xs) |-> RMul(xs[i], xs[i])]
    IN  RSqrt(RSub(MeanSeq(sq), RMul(m, m)))

-----------------------------------------------------------------------------
(* SegmentStatistics (segment_stats.py)                                     *)

Segments == {1, 2}

\* SegmentStatistics(segment_id=...) with the dataclass defaults.  The apex and
\* exit speed triples and max_longitudinal_g_observed are left out: the code
\* assigns them by the same statements as the entry speed triple and
\* max_lateral_g_observed, from their own observation fields, and reads them
\* nowhere.
SegmentStatistics(segment_id) ==
    [segment_id |-> segment_id,
     observation_count |-> 0,
     entry_speed_mean_kmh |-> Zero, entry_speed_std_kmh |-> Zero,
     entry_speed_max_kmh |-> Zero,
     brake_point_mean_m |-> Zero, brake_point_std_m |-> Zero,
     brake_point_latest_m |-> Zero,
     max_lateral_g_observed |-> Zero,
     first_observation |-> None, last_observation |-> None,
     confidence_weighted_count |-> Zero,
     decay_factor |-> One]

\* has_sufficient_data compares against the literal 3.0
SufficientCount == 3

effective_observation_count(st) ==
    RMul(st.confidence_weighted_count, st.decay_factor)

has_sufficient_data_NoDecay(st) ==
    RLe(I(SufficientCount), st.confidence_weighted_count)

has_sufficient_data(st) ==
    RLe(I(SufficientCount), effective_observation_count(st))

get_learned_entry_speed(st, physics_ceiling_kmh) ==
    IF ~has_sufficient_data(st) THEN physics_ceiling_kmh
    ELSE LET learned == RMin(RAdd(st.entry_speed_mean_kmh,
                                  RMul(I(2), st.entry_speed_std_kmh)),
                             st.entry_speed_max_kmh)
         IN  RMin(RMul(learned, st.decay_factor), physics_ceiling_kmh)

get_learned_brake_point(st, physics_minimum_m) ==
    IF ~has_sufficient_data(st) THEN physics_minimum_m
    ELSE LET conservative_learned ==
                 RMax(st.brake_point_latest_m,
                      RSub(st.brake_point_mean_m, st.brake_point_std_m))
         IN  RMax(conservative_learned, physics_minimum_m)

-----------------------------------------------------------------------------
(* SegmentStatsStore (segment_stats.py)                                     *)

\* max_observations_per_segment, the capacity of a window (100 by default)
MaxObservations == 3

\* add_observation rejects confidence < 0.7
MinObservationConfidence == R(7, 10)

Observation(seg, ts, entry, latg, brake, clean, conf) ==
    [segment_id |-> seg, timestamp |-> ts,
     entry_speed_kmh |-> entry, max_lateral_g |-> latg,
     brake_point_distance_m |-> brake, was_clean |-> clean, confidence |-> conf]

\* The passes fed to the store: for each segment a fast clean pass at full
\* confidence, a slower clean pass at exactly the 0.7 threshold, a dirty pass
\* and a clean pass below the confidence threshold.
FastPass(seg) == Observation(seg, 1, I(100), R(9, 10), I(60), TRUE, One)
SlowPass(seg) == Observation(seg, 2, I(80), R(4, 5), I(90), TRUE, R(7, 10))
DirtyPass(seg) == Observation(seg, 3, I(120), R(6, 5), I(40), FALSE, R(9, 10))
LowConfidencePass(seg) == Observation(seg, 4, I(110), One, I(50), TRUE, R(3, 5))

ObservationInputs ==
    UNION {{FastPass(s), SlowPass(s), DirtyPass(s), LowConfidencePass(s)} : s \in Segments}

\* The two early returns of add_observation
IsRejected_CleanOnly(o) == ~o.was_clean

IsRejected(o) == ~o.was_clean \/ RLt(o.confidence, MinObservationConfidence)

AppendTrim_DropNewest(obs_list, o) ==
    LET appended == Append(obs_list, o)
    IN  IF Len(appended) > max_observations
        THEN SubSeq(appended, 1, max_observations) ELSE appended

\* obs_list.append(observation); pop(0) when the window overflows
AppendTrim(obs_list, o) ==
    LET appended == Append(obs_list, o)
    IN  IF Len(appended) > max_observations THEN Tail(appended) ELSE appended

\* np.array([o.<field> for o in observations])
Column(obs, field) == [i \in 1..Len(obs) |-> obs[i][field]]

_update_statistics_ResetDecay(st, obs) ==
    [SegmentStatistics(st.segment_id) EXCEPT
        !.observation_count = Len(obs),
        !.confidence_weighted_count = SumSeq(Column(obs, "confidence"))]

\* Recompute the statistics of one segment from its window; decay_factor and
\* segment_id are the fields it does not assign.
_update_statistics(st, obs) ==
    IF obs = <<>> THEN st
    ELSE LET entry_speeds == Column(obs, "entry_speed_kmh")
             brake_points == Column(obs, "brake_point_distance_m")
             lateral_gs == Column(obs, "max_lateral_g")
             confidences == Column(obs, "confidence")
         IN  [st EXCEPT
                 !.observation_count = Len(obs),
                 !.confidence_weighted_count = SumSeq(confidences),
                 !.entry_speed_mean_kmh = MeanSeq(entry_speeds),
                 !.entry_speed_std_kmh = StdSeq(entry_speeds),
                 !.entry_speed_max_kmh = MaxSeq(entry_speeds),
                 !.brake_point_mean_m = MeanSeq(brake_points),
                 !.brake_point_std_m = StdSeq(brake_points),
                 !.brake_point_latest_m = MinSeq(brake_points),
                 !.max_lateral_g_observed = MaxSeq(lateral_gs),
                 !.first_observation = Some(obs[1].timestamp),
                 !.last_observation = Some(obs[Len(obs)].timestamp)]

get_statistics(segment_id) ==
    IF segment_id \in DOMAIN stats THEN Some(stats[segment_id]) ELSE None

Call(op, arg, ret) == [op |-> op, arg |-> arg, ret |-> ret]

add_observation(o) ==
    /\ lastCall' = Call("add_observation", o, None)
    /\ IF IsRejected(o)
       THEN UNCHANGED storeVars
       ELSE LET segment_id == o.segment_id
                known == segment_id \in DOMAIN observations
                obs_list == AppendTrim(IF known THEN observations[segment_id] ELSE <<>>, o)
                st == IF known THEN stats[segment_id] ELSE SegmentStatistics(segment_id)
            IN  /\ observations' =
                       [s \in DOMAIN observations \cup {segment_id} |->
                           IF s = segment_id THEN obs_list ELSE observations[s]]
                /\ stats' =
                       [s \in DOMAIN stats \cup {segment_id} |->
                           IF s = segment_id THEN _update_statistics(st, obs_list)
                           ELSE stats[s]]
    /\ UNCHANGED <<decayVars, blendVars, max_observations, envelopeVars, voiceVars, lap_data, runtimeVars>>

\* The decay factors callers hand to the store directly
DecayInputs == {Zero, R(1, 2)}

StoreApplyDecay(segment_id, decay_factor) ==
    IF segment_id \in DOMAIN stats
    THEN [stats EXCEPT ![segment_id].decay_factor = decay_factor]
    ELSE stats

StoreApplyGlobalDecay(decay_factor) ==
    [s \in DOMAIN stats |-> [stats[s] EXCEPT !.decay_factor = decay_factor]]

apply_decay(segment_id, decay_factor) ==
    /\ lastCall' = Call("apply_decay", <<segment_id, decay_factor>>, None)
    /\ stats' = StoreApplyDecay(segment_id, decay_factor)
    /\ UNCHANGED <<observations, decayVars, blendVars, max_observations, envelopeVars, voiceVars, lap_data, runtimeVars>>

apply_global_decay(decay_factor) ==
    /\ lastCall' = Call("apply_global_decay", decay_factor, None)
    /\ stats' = StoreApplyGlobalDecay(decay_factor)
    /\ UNCHANGED <<observations, decayVars, blendVars, max_observations, envelopeVars, voiceVars, lap_data, runtimeVars>>

Without(f, k) == [s \in DOMAIN f \ {k} |-> f[s]]

clear_segment(segment_id) ==
    /\ lastCall' = Call("clear_segment", segment_id, None)
    /\ observations' = Without(observations, segment_id)
    /\ stats' = Without(stats, segment_id)
    /\ UNCHANGED <<decayVars, blendVars, max_observations, envelopeVars, voiceVars, lap_data, runtimeVars>>

clear_all ==
    /\ lastCall' = Call("clear_all", None, None)
    /\ observations' = <<>>
    /\ stats' = <<>>
    /\ UNCHANGED <<decayVars, blendVars, max_observations, envelopeVars, voiceVars, lap_data, runtimeVars>>

-----------------------------------------------------------------------------
(* DecayManager (decay_manager.py)                                          *)

\* DecayConfig() with the dataclass defaults
DecayConfig ==
    [max_data_age_hours |-> 24,
     half_life_hours |-> 8,
     session_break_threshold_minutes |-> 60,
     session_break_decay_factor |-> R(1, 2),
     weather_change_decay |-> Zero,
     temperature_change_per_10c |-> R(1, 5),
     surface_change_decay |-> Zero,
     tire_change_decay |-> R(3, 10),
     vehicle_change_decay |-> Zero,
     min_decay_factor |-> R(1, 10)]

\* ConditionState; last_activity is a time in whole hours
ConditionState(is_dry, track_temp_c, surface_condition, tire_compound, vehicle_id, last_activity) ==
    [is_dry |-> is_dry, ambient_temp_c |-> 20, track_temp_c |-> track_temp_c,
     surface_type |-> "asphalt", surface_condition |-> surface_condition,
     tire_compound |-> tire_compound, vehicle_id |-> vehicle_id,
     last_activity |-> last_activity]

\* The snapshots the condition monitor supplies
Baseline == ConditionState(TRUE, 30, "normal", "street", "car1", 0)
WetOnWets == ConditionState(FALSE, 30, "normal", "wet", "car1", 0)
HotLater == ConditionState(TRUE, 50, "normal", "street", "car1", 8)
OtherCar == ConditionState(TRUE, 30, "dusty", "street", "car2", 0)

ConditionInputs == {Baseline, WetOnWets, HotLater, OtherCar}

\* The values datetime.now() returns to apply_age_decay, in whole hours
Clock == {0, 32}

\* The checks of update_conditions, in the order of the code: the dict of the
\* triggers that fired with their factors
TriggeredDecays(prev, current_conditions) ==
    LET temp_delta == Abs(current_conditions.track_temp_c - prev.track_temp_c)
        decay_amount == RMul(I(temp_delta \div 10), DecayConfig.temperature_change_per_10c)
        break_duration == current_conditions.last_activity - prev.last_activity
        fired ==
            {t \in {"WEATHER_CHANGE"} : current_conditions.is_dry # prev.is_dry}
            \cup {t \in {"TEMPERATURE_CHANGE"} : temp_delta >= 10}
            \cup {t \in {"SURFACE_CHANGE"} :
                    \/ current_conditions.surface_type # prev.surface_type
                    \/ current_conditions.surface_condition # prev.surface_condition}
            \cup {t \in {"LONG_BREAK"} :
                    break_duration * 60 > DecayConfig.session_break_threshold_minutes}
            \cup {t \in {"TIRE_CHANGE"} :
                    current_conditions.tire_compound # prev.tire_compound}
            \cup {t \in {"VEHICLE_CHANGE"} :
                    /\ current_conditions.vehicle_id # ""
                    /\ prev.vehicle_id # ""
                    /\ current_conditions.vehicle_id # prev.vehicle_id}
    IN  [t \in fired |->
            CASE t = "WEATHER_CHANGE" -> DecayConfig.weather_change_decay
              [] t = "TEMPERATURE_CHANGE" -> RMax(Zero, RSub(One, decay_amount))
              [] t = "SURFACE_CHANGE" -> DecayConfig.surface_change_decay
              [] t = "LONG_BREAK" -> DecayConfig.session_break_decay_factor
              [] t = "TIRE_CHANGE" -> DecayConfig.tire_change_decay
              [] t = "VEHICLE_CHANGE" -> DecayConfig.vehicle_change_decay]

RECURSIVE ProductOf(_, _)
ProductOf(decays, keys) ==
    IF keys = {} THEN One
    ELSE LET k == CHOOSE x \in keys : TRUE
         IN  RMul(decays[k], ProductOf(decays, keys \ {k}))

_combine_decay_factors_NoFloor(decays) ==
    ProductOf(decays, DOMAIN decays)

_combine_decay_factors(decays) ==
    IF DOMAIN decays = {} THEN One
    ELSE RMax(ProductOf(decays, DOMAIN decays), DecayConfig.min_decay_factor)

update_conditions(current_conditions) ==
    IF previous_conditions = None
    THEN /\ previous_conditions' = Some(current_conditions)
         /\ lastCall' = Call("update_conditions", None, <<>>)
         /\ UNCHANGED <<storeVars, decay_history, blendVars, max_observations, envelopeVars, voiceVars, lap_data, runtimeVars>>
    ELSE LET triggered_decays == TriggeredDecays(previous_conditions[1],
                                                 current_conditions)
         IN  /\ stats' = IF DOMAIN triggered_decays # {}
                         THEN StoreApplyGlobalDecay(
                                  _combine_decay_factors(triggered_decays))
                         ELSE stats
             /\ decay_history' = decay_history \cup DOMAIN triggered_decays
             /\ previous_conditions' = Some(current_conditions)
             /\ lastCall' = Call("update_conditions", None, triggered_decays)
             /\ UNCHANGED <<observations, blendVars, max_observations, envelopeVars, voiceVars, lap_data, runtimeVars>>

\* math.pow(0.5, k) for a whole number k of half-lives
HalfPow(k) == IF k >= 0 THEN R(1, 2 ^ k) ELSE I(2 ^ (-k))

\* The factor apply_age_decay computes for an age that is a whole number of
\* half-lives (the snapshots and the clock keep it one)
AgeDecayFactor(age_hours) ==
    IF age_hours > DecayConfig.max_data_age_hours
    THEN DecayConfig.min_decay_factor
    ELSE RMax(HalfPow(age_hours \div DecayConfig.half_life_hours),
              DecayConfig.min_decay_factor)

apply_age_decay(now) ==
    IF previous_conditions = None
    THEN /\ lastCall' = Call("apply_age_decay", None, None)
         /\ UNCHANGED <<storeVars, decayVars, blendVars, max_observations, envelopeVars, voiceVars, lap_data, runtimeVars>>
    ELSE LET decay_factor ==
                 AgeDecayFactor(now - previous_conditions[1].last_activity)
         IN  /\ stats' = StoreApplyGlobalDecay(decay_factor)
             /\ decay_history' = decay_history \cup {"DATA_AGE"}
             /\ lastCall' = Call("apply_age_decay", None, Some(decay_factor))
             /\ UNCHANGED <<observations, previous_conditions, blendVars, max_observations, envelopeVars, voiceVars, lap_data, runtimeVars>>

reset_all_learning ==
    /\ stats' = StoreApplyGlobalDecay(Zero)
    /\ decay_history' = decay_history \cup {"MANUAL_RESET"}
    /\ lastCall' = Call("reset_all_learning", None, None)
    /\ UNCHANGED <<observations, previous_conditions, blendVars, max_observations, envelopeVars, voiceVars, lap_data, runtimeVars>>

reset_segment_learning(segment_id) ==
    /\ stats' = StoreApplyDecay(segment_id, Zero)
    /\ lastCall' = Call("reset_segment_learning", segment_id, None)
    /\ UNCHANGED <<observations, decayVars, blendVars, max_observations, envelopeVars, voiceVars, lap_data, runtimeVars>>

-----------------------------------------------------------------------------
(* BlendEngine (blend_engine.py)                                            *)

BlendConfig(max_learned_influence, min_obs, full_obs, learned_safety_margin) ==
    [max_learned_influence |-> max_learned_influence,
     min_observations_for_learning |-> min_obs,
     observations_for_full_influence |-> full_obs,
     learned_safety_margin |-> learned_safety_margin]

DefaultBlendConfig == BlendConfig(R(3, 10), 3, 20, R(1, 20))

\* The physics envelope as the engine reads it: blend_corner_speed reads
\* max_speed_kmh, blend_brake_point reads minimum_brake_distance_m.
SpeedEnvelope(v) == [max_speed_kmh |-> v]

BrakeEnvelope(v) == [minimum_brake_distance_m |-> v]

BlendResult(blended_value, physics_ceiling, learned_value, learned_weight, observation_count, was_physics_limited) ==
    [blended_value |-> blended_value,
     physics_ceiling |-> physics_ceiling,
     learned_value |-> learned_value,
     learned_weight |-> learned_weight,
     observation_count |-> observation_count,
     was_physics_limited |-> was_physics_limited]

_compute_learned_weight_Uncapped(cfg, st) ==
    LET effective_count == effective_observation_count(st)
        ramp_range == cfg.observations_for_full_influence
                      - cfg.min_observations_for_learning
    IN  IF RLt(effective_count, I(cfg.min_observations_for_learning)) THEN Zero
        ELSE IF ramp_range <= 0 THEN cfg.max_learned_influence
        ELSE RMul(RDiv(RSub(effective_count, I(cfg.min_observations_for_learning)),
                       I(ramp_range)),
                  cfg.max_learned_influence)

_compute_learned_weight(cfg, st) ==
    LET effective_count == effective_observation_count(st)
        ramp_range == cfg.observations_for_full_influence
                      - cfg.min_observations_for_learning
        progress == RDiv(RSub(effective_count, I(cfg.min_observations_for_learning)),
                         I(ramp_range))
        weight == IF ramp_range <= 0 THEN One ELSE RMin(progress, One)
    IN  IF RLt(effective_count, I(cfg.min_observations_for_learning)) THEN Zero
        ELSE RMul(weight, cfg.max_learned_influence)

\* The fallback both blends return without (sufficient) learned data
PhysicsOnly(physics, segment_stats) ==
    BlendResult(physics, physics, None, Zero,
                IF segment_stats = None THEN 0 ELSE segment_stats[1].observation_count,
                FALSE)

BlendTowardLearned_SignSlip(physics_ceiling, learned_speed, learned_weight, margin) ==
    LET blended == RAdd(physics_ceiling,
                        RMul(RSub(physics_ceiling, learned_speed), learned_weight))
        safety_reduction == RMul(RSub(physics_ceiling, blended), margin)
    IN  RSub(blended, safety_reduction)

\* blended = ceiling - (ceiling - learned) * weight, then the safety reduction
BlendTowardLearned(physics_ceiling, learned_speed, learned_weight, margin) ==
    LET blended == RSub(physics_ceiling,
                        RMul(RSub(physics_ceiling, learned_speed), learned_weight))
        safety_reduction == RMul(RSub(physics_ceiling, blended), margin)
    IN  RSub(blended, safety_reduction)

blend_corner_speed(cfg, physics_envelope, segment_stats) ==
    LET physics_ceiling == physics_envelope.max_speed_kmh
    IN  IF segment_stats = None \/ ~has_sufficient_data(segment_stats[1])
        THEN PhysicsOnly(physics_ceiling, segment_stats)
        ELSE
        LET st == segment_stats[1]
            learned_speed == get_learned_entry_speed(st, physics_ceiling)
            learned_weight == _compute_learned_weight(cfg, st)
        IN  IF RLt(physics_ceiling, learned_speed)
            THEN BlendResult(physics_ceiling, physics_ceiling, Some(learned_speed),
                             Zero, st.observation_count, TRUE)
            ELSE BlendResult(BlendTowardLearned(physics_ceiling, learned_speed,
                                                learned_weight,
                                                cfg.learned_safety_margin),
                             physics_ceiling, Some(learned_speed), learned_weight,
                             st.observation_count, FALSE)

BlendTowardPhysics_MarginSubtracted(learned_point, physics_minimum, learned_weight, margin) ==
    LET blended == RSub(learned_point,
                        RMul(RSub(learned_point, physics_minimum), learned_weight))
        safety_addition == RMul(RSub(learned_point, blended), margin)
    IN  RSub(blended, safety_addition)

\* blended = learned - (learned - minimum) * weight, then the safety addition
BlendTowardPhysics(learned_point, physics_minimum, learned_weight, margin) ==
    LET blended == RSub(learned_point,
                        RMul(RSub(learned_point, physics_minimum), learned_weight))
        safety_addition == RMul(RSub(learned_point, blended), margin)
    IN  RAdd(blended, safety_addition)

blend_brake_point(cfg, physics_envelope, segment_stats) ==
    LET physics_minimum == physics_envelope.minimum_brake_distance_m
    IN  IF segment_stats = None \/ ~has_sufficient_data(segment_stats[1])
        THEN PhysicsOnly(physics_minimum, segment_stats)
        ELSE
        LET st == segment_stats[1]
            learned_point == get_learned_brake_point(st, physics_minimum)
            learned_weight == _compute_learned_weight(cfg, st)
        IN  IF RLt(learned_point, physics_minimum)
            THEN BlendResult(physics_minimum, physics_minimum, Some(learned_point),
                             Zero, st.observation_count, TRUE)
            ELSE BlendResult(BlendTowardPhysics(learned_point, physics_minimum,
                                                learned_weight,
                                                cfg.learned_safety_margin),
                             physics_minimum, Some(learned_point), learned_weight,
                             st.observation_count, FALSE)

NoResult == [op |-> "none", ret |-> None]

BlendCornerSpeed ==
    /\ result' = [op |-> "blend_corner_speed",
                  ret |-> blend_corner_speed(config, SpeedEnvelope(physics_value),
                                             stats_arg)]
    /\ UNCHANGED <<storeVars, decayVars, lastCall, config, physics_value, stats_arg,
                 max_observations, envelopeVars, voiceVars, lap_data, runtimeVars>>

BlendBrakePoint ==
    /\ result' = [op |-> "blend_brake_point",
                  ret |-> blend_brake_point(config, BrakeEnvelope(physics_value),
                                            stats_arg)]
    /\ UNCHANGED <<storeVars, decayVars, lastCall, config, physics_value, stats_arg,
                 max_observations, envelopeVars, voiceVars, lap_data, runtimeVars>>

ComputeLearnedWeight ==
    /\ stats_arg # None
    /\ result' = [op |-> "_compute_learned_weight",
                  ret |-> _compute_learned_weight(config, stats_arg[1])]
    /\ UNCHANGED <<storeVars, decayVars, lastCall, config, physics_value, stats_arg,
                 max_observations, envelopeVars, voiceVars, lap_data, runtimeVars>>

-----------------------------------------------------------------------------
(* CornerSpeedCalculator, BrakingCalculator and EnvelopeManager            *)
(* (corner_speed.py, braking_envelope.py, envelope_manager.py,             *)
(* types/envelopes.py). Distances are whole metres, speeds are rationals.  *)

\* TrackSegment; minimum_radius_m is None for the default float('inf')
TrackSegment(segment_id, start_distance_m, end_distance_m, is_corner, minimum_radius_m, geometry_confidence) ==
    [segment_id |-> segment_id, start_distance_m |-> start_distance_m,
     end_distance_m |-> end_distance_m, is_corner |-> is_corner,
     minimum_radius_m |-> minimum_radius_m,
     geometry_confidence |-> geometry_confidence]

TrackModel(total_length_m, segments) ==
    [total_length_m |-> total_length_m, segments |-> segments]

CornerSpeedConfig ==
    [tire_friction_mu |-> One,
     safety_factor |-> R(17, 20),
     low_confidence_penalty |-> R(17, 20),
     absolute_max_speed_kmh |-> I(300),
     absolute_min_speed_kmh |-> I(20),
     low_confidence_threshold |-> R(7, 10)]

\* CornerSpeedCalculator.GRAVITY = 9.81
GRAVITY == R(981, 100)

\* km/h per m/s
KmhPerMs == R(18, 5)

\* v = sqrt(g * mu * r) in m/s; 0 for a radius <= 0, the absolute maximum for
\* an infinite radius
_compute_physics_limit(radius_m, friction_mu) ==
    IF radius_m = None
    THEN RDiv(CornerSpeedConfig.absolute_max_speed_kmh, KmhPerMs)
    ELSE IF RLe(radius_m[1], Zero) THEN Zero
    ELSE RSqrt(RMul(RMul(GRAVITY, friction_mu), radius_m[1]))

\* CornerSpeedEnvelope with its __post_init__: an envelope speed above the
\* ceiling is replaced by the ceiling
CornerSpeedEnvelope(segment_id, distance_start_m, distance_end_m, ceiling, conservative, learned, learning_confidence, envelope_speed, radius, confidence) ==
    [segment_id |-> segment_id,
     distance_start_m |-> distance_start_m,
     distance_end_m |-> distance_end_m,
     physics_ceiling_kmh |-> [value |-> ceiling, unit |-> "km/h"],
     conservative_speed_kmh |-> conservative,
     learned_speed_kmh |-> learned,
     learning_confidence |-> learning_confidence,
     envelope_speed_kmh |-> IF RLt(ceiling, envelope_speed) THEN ceiling
                            ELSE envelope_speed,
     corner_radius_m |-> radius,
     confidence |-> confidence]

compute_for_segment(segment) ==
    LET physics_max_m_s == _compute_physics_limit(segment.minimum_radius_m,
                                                  CornerSpeedConfig.tire_friction_mu)
        physics_max_kmh ==
            RMax(RMin(RMul(physics_max_m_s, KmhPerMs),
                      CornerSpeedConfig.absolute_max_speed_kmh),
                 CornerSpeedConfig.absolute_min_speed_kmh)
        with_margin == RMul(physics_max_kmh, CornerSpeedConfig.safety_factor)
        conservative_kmh ==
            IF RLt(segment.geometry_confidence,
                   CornerSpeedConfig.low_confidence_threshold)
            THEN RMul(with_margin, CornerSpeedConfig.low_confidence_penalty)
            ELSE with_margin
    IN  CornerSpeedEnvelope(segment.segment_id, segment.start_distance_m,
                            segment.end_distance_m, physics_max_kmh,
                            conservative_kmh, None, Zero, conservative_kmh,
                            segment.minimum_radius_m, segment.geometry_confidence)

\* The weight blend_with_learned allows: at most 30% learned influence
MaxBlendWeight == R(3, 10)

blend_with_learned_Unclamped(self, learned_speed_kmh, blend_weight) ==
    LET weight == RMax(Zero, RMin(MaxBlendWeight, blend_weight))
        blended == RAdd(RMul(RSub(One, weight), self.conservative_speed_kmh),
                        RMul(weight, learned_speed_kmh))
    IN  [self EXCEPT !.learned_speed_kmh = Some(learned_speed_kmh),
                     !.learning_confidence = blend_weight,
                     !.envelope_speed_kmh = blended]

blend_with_learned(self, learned_speed_kmh, blend_weight) ==
    LET weight == RMax(Zero, RMin(MaxBlendWeight, blend_weight))
        blended == RAdd(RMul(RSub(One, weight), self.conservative_speed_kmh),
                        RMul(weight, learned_speed_kmh))
        final == RMin(blended, self.physics_ceiling_kmh.value)
    IN  CornerSpeedEnvelope(self.segment_id, self.distance_start_m,
                            self.distance_end_m, self.physics_ceiling_kmh.value,
                            self.conservative_speed_kmh, Some(learned_speed_kmh),
                            blend_weight, final, self.corner_radius_m,
                            self.confidence)

\* The distances and decelerations BrakingCalculator derives are total
\* functions of the arguments named here (_compute_stopping_distance,
\* _compute_required_deceleration and is_braking_late raise nothing and read
\* only the fixed BrakingConfig); none of the operations below reads their
\* numeric value, so each is carried as the term that computes it.
Derived(fn, args) == [fn |-> fn, args |-> args]

_compute_stopping_distance(initial_speed_kmh, final_speed_kmh) ==
    Derived("_compute_stopping_distance", <<initial_speed_kmh, final_speed_kmh>>)

_compute_required_deceleration(initial_speed_kmh, final_speed_kmh, distance_m) ==
    Derived("_compute_required_deceleration",
            <<initial_speed_kmh, final_speed_kmh, distance_m>>)

BrakingEnvelope(target_speed_kmh, conservative_decel_g, brake_distance_m, safety_distance_m) ==
    [segment_id |-> 0, target_speed_kmh |-> target_speed_kmh,
     conservative_decel_g |-> conservative_decel_g,
     brake_distance_m |-> brake_distance_m,
     safety_distance_m |-> safety_distance_m]

\* <<brake point, envelope>>; no braking is needed when current <= target
compute_brake_point(current_speed_kmh, target_speed_kmh, corner_entry_distance_m) ==
    IF RLe(current_speed_kmh, target_speed_kmh)
    THEN <<Derived("value", <<I(corner_entry_distance_m)>>),
           BrakingEnvelope(target_speed_kmh, Derived("value", <<Zero>>),
                           Derived("value", <<Zero>>), Zero)>>
    ELSE LET brake_distance == _compute_stopping_distance(current_speed_kmh,
                                                          target_speed_kmh)
         IN  <<Derived("max(0.0, entry - brake_distance)",
                       <<I(corner_entry_distance_m), brake_distance>>),
               BrakingEnvelope(target_speed_kmh,
                               _compute_required_deceleration(
                                   current_speed_kmh, target_speed_kmh,
                                   brake_distance),
                               brake_distance, I(10))>>

\* <<is_late, margin_m>>
is_braking_late(current_speed_kmh, target_speed_kmh, distance_to_corner_m) ==
    LET required_distance == _compute_stopping_distance(current_speed_kmh,
                                                        target_speed_kmh)
    IN  <<Derived("margin < 0", <<I(distance_to_corner_m), required_distance>>),
          Derived("distance - required",
                  <<I(distance_to_corner_m), required_distance>>)>>

SegmentEnvelope(segment_id, distance_start_m, distance_end_m, corner_speed, braking, steering, combined_grip, confidence) ==
    [segment_id |-> segment_id, distance_start_m |-> distance_start_m,
     distance_end_m |-> distance_end_m, corner_speed |-> corner_speed,
     braking |-> braking, steering |-> steering,
     combined_grip |-> combined_grip, confidence |-> confidence]

\* The first corner that starts after the segment ends, else the first corner
\* of the track, else None
_find_next_corner(current_segment, track) ==
    LET segs == track.segments
        after == {i \in 1..Len(segs) :
                     /\ segs[i].start_distance_m > current_segment.end_distance_m
                     /\ segs[i].is_corner}
        corners == {i \in 1..Len(segs) : segs[i].is_corner}
        First(idx) == segs[CHOOSE i \in idx : \A j \in idx : i <= j]
    IN  IF after # {} THEN Some(First(after))
        ELSE IF corners # {} THEN Some(First(corners))
        ELSE None

\* The approach speed _build_segment_envelope assumes
ApproachSpeedKmh == I(200)

_build_segment_envelope(segment, track) ==
    LET corner_speed == compute_for_segment(segment)
        next_corner == _find_next_corner(segment, track)
        braking ==
            IF next_corner # None /\ ~segment.is_corner
            THEN Some(compute_brake_point(
                          ApproachSpeedKmh, corner_speed.envelope_speed_kmh,
                          next_corner[1].start_distance_m
                              - segment.end_distance_m)[2])
            ELSE None
    IN  SegmentEnvelope(segment.segment_id, segment.start_distance_m,
                        segment.end_distance_m, Some(corner_speed), braking,
                        None, None, segment.geometry_confidence)

\* self._segment_envelopes[segment_id] = envelope on a dict kept in insertion
\* order: an existing key keeps its place
DictSet(envs, envelope) ==
    IF \E i \in 1..Len(envs) : envs[i].segment_id = envelope.segment_id
    THEN [i \in 1..Len(envs) |->
             IF envs[i].segment_id = envelope.segment_id THEN envelope
             ELSE envs[i]]
    ELSE Append(envs, envelope)

RECURSIVE BuildAll(_, _, _)
BuildAll(envs, todo, track) ==
    IF todo = <<>> THEN envs
    ELSE BuildAll(DictSet(envs, _build_segment_envelope(Head(todo), track)),
                  Tail(todo), track)

build_envelopes(track) ==
    /\ segment_envelopes' = BuildAll(<<>>, track.segments, track)
    /\ track_length_m' = track.total_length_m
    /\ lastCall' = Call("build_envelopes", track, None)
    /\ UNCHANGED <<learningVars, voiceVars, lap_data, runtimeVars>>

\* distance_m % self._track_length_m when the track length is positive
Wrap(length, distance_m) ==
    IF length > 0 THEN distance_m % length ELSE distance_m

EnvelopeAt_Unwrapped(envs, length, distance_m) ==
    LET hits == {i \in 1..Len(envs) :
                    /\ envs[i].distance_start_m <= distance_m
                    /\ distance_m < envs[i].distance_end_m}
    IN  IF hits = {} THEN None
        ELSE Some(envs[CHOOSE i \in hits : \A j \in hits : i <= j])

\* get_envelope_at_distance on a manager holding envs: wrap, then the first
\* envelope in dict order with start <= distance < end
EnvelopeAt(envs, length, distance_m) ==
    LET wrapped == Wrap(length, distance_m)
        hits == {i \in 1..Len(envs) :
                    /\ envs[i].distance_start_m <= wrapped
                    /\ wrapped < envs[i].distance_end_m}
    IN  IF hits = {} THEN None
        ELSE Some(envs[CHOOSE i \in hits : \A j \in hits : i <= j])

\* get_speed_limit_at_distance returns 300.0 where no envelope applies
DefaultMaxKmh == I(300)

SpeedLimitAt(envs, length, distance_m) ==
    LET envelope == EnvelopeAt(envs, length, distance_m)
    IN  IF envelope # None /\ envelope[1].corner_speed # None
        THEN envelope[1].corner_speed[1].envelope_speed_kmh
        ELSE DefaultMaxKmh

get_envelope_at_distance(distance_m) ==
    /\ lastCall' = Call("get_envelope_at_distance", distance_m,
                        EnvelopeAt(segment_envelopes, track_length_m, distance_m))
    /\ UNCHANGED <<learningVars, envelopeVars, voiceVars, lap_data, runtimeVars>>

get_speed_limit_at_distance(distance_m) ==
    /\ lastCall' = Call("get_speed_limit_at_distance", distance_m,
                        SpeedLimitAt(segment_envelopes, track_length_m, distance_m))
    /\ UNCHANGED <<learningVars, envelopeVars, voiceVars, lap_data, runtimeVars>>

\* EnvelopeManagerConfig.brake_lookahead_m
BrakeLookaheadM == 500

\* get_speed_envelope_ahead samples every 10 m
ResolutionM == 10

\* The list of <<distance_ahead, speed_limit>>: distance starts at the current
\* distance and grows by the resolution while it is below current + lookahead
SpeedEnvelopeAhead(envs, length, current_distance_m, lookahead_m) ==
    LET n == (lookahead_m + ResolutionM - 1) \div ResolutionM
    IN  [i \in 1..n |->
            <<ResolutionM * (i - 1),
              SpeedLimitAt(envs, length,
                           current_distance_m + ResolutionM * (i - 1))>>]

Advisory(current_speed_kmh, distance_ahead, speed_limit) ==
    LET late == is_braking_late(current_speed_kmh, speed_limit, distance_ahead)
        brake == compute_brake_point(current_speed_kmh, speed_limit, distance_ahead)
    IN  [distance_to_corner_m |-> distance_ahead,
         target_speed_kmh |-> speed_limit,
         brake_point_m |-> brake[1],
         is_late |-> late[1],
         margin_m |-> late[2],
         required_decel_g |-> brake[2].conservative_decel_g]

BrakeAdvisory_Farthest(envs, length, current_distance_m, current_speed_kmh) ==
    LET ahead == SpeedEnvelopeAhead(envs, length, current_distance_m,
                                    BrakeLookaheadM)
        slower == {i \in 1..Len(ahead) : RLt(ahead[i][2], current_speed_kmh)}
    IN  IF slower = {} THEN None
        ELSE LET i == CHOOSE k \in slower : \A j \in slower : j <= k
             IN  Some(Advisory(current_speed_kmh, ahead[i][1], ahead[i][2]))

\* compute_brake_advisory: the first sample whose limit is below the current
\* speed yields the advisory; None when the loop ends without one
BrakeAdvisory(envs, length, current_distance_m, current_speed_kmh) ==
    LET ahead == SpeedEnvelopeAhead(envs, length, current_distance_m,
                                    BrakeLookaheadM)
        slower == {i \in 1..Len(ahead) : RLt(ahead[i][2], current_speed_kmh)}
    IN  IF slower = {} THEN None
        ELSE LET i == CHOOSE k \in slower : \A j \in slower : k <= j
             IN  Some(Advisory(current_speed_kmh, ahead[i][1], ahead[i][2]))

compute_brake_advisory(current_distance_m, current_speed_kmh) ==
    /\ lastCall' = Call("compute_brake_advisory",
                        <<current_distance_m, current_speed_kmh>>,
                        BrakeAdvisory(segment_envelopes, track_length_m,
                                      current_distance_m, current_speed_kmh))
    /\ UNCHANGED <<learningVars, envelopeVars, voiceVars, lap_data, runtimeVars>>

LearnedUpdate_DropsBraking(envelope, learned_speed_kmh, blend_weight) ==
    SegmentEnvelope(envelope.segment_id, envelope.distance_start_m,
                    envelope.distance_end_m,
                    Some(blend_with_learned(envelope.corner_speed[1],
                                            learned_speed_kmh, blend_weight)),
                    None, envelope.steering, envelope.combined_grip,
                    envelope.confidence)

\* The SegmentEnvelope update_from_learning stores in place of envelope
LearnedUpdate(envelope, learned_speed_kmh, blend_weight) ==
    SegmentEnvelope(envelope.segment_id, envelope.distance_start_m,
                    envelope.distance_end_m,
                    Some(blend_with_learned(envelope.corner_speed[1],
                                            learned_speed_kmh, blend_weight)),
                    envelope.braking, envelope.steering, envelope.combined_grip,
                    envelope.confidence)

update_from_learning(segment_id, learned_speed_kmh, blend_weight) ==
    LET held == {i \in 1..Len(segment_envelopes) :
                    segment_envelopes[i].segment_id = segment_id}
        applies == held # {} /\ \A i \in held : segment_envelopes[i].corner_speed # None
    IN  /\ segment_envelopes' =
               IF applies
               THEN [i \in 1..Len(segment_envelopes) |->
                        IF i \in held
                        THEN LearnedUpdate(segment_envelopes[i],
                                           learned_speed_kmh, blend_weight)
                        ELSE segment_envelopes[i]]
               ELSE segment_envelopes
        /\ lastCall' = Call("update_from_learning",
                            <<segment_id, learned_speed_kmh, blend_weight>>,
                            applies)
        /\ UNCHANGED <<track_length_m, learningVars, voiceVars, lap_data, runtimeVars>>

\* EnvelopeManager.reset
reset_envelopes ==
    /\ segment_envelopes' = <<>>
    /\ track_length_m' = 0
    /\ lastCall' = Call("reset", None, None)
    /\ UNCHANGED <<learningVars, voiceVars, lap_data, runtimeVars>>

-----------------------------------------------------------------------------
(* LapValidator (lap_validator.py). A lap is what validate_lap reads of     *)
(* it: its frames and, when it has one, its track_coverage_ratio; a frame   *)
(* is the attributes the checks read.                                       *)

ValidationConfig ==
    [min_overall_confidence |-> R(4, 5),
     min_segment_confidence |-> R(7, 10),
     max_confidence_dropout_ratio |-> R(1, 10),
     min_track_coverage_ratio |-> R(19, 20),
     max_steering_correction_count |-> 5,
     max_yaw_rate_spike_count |-> 3,
     max_lateral_g_spike_count |-> 3,
     steering_correction_threshold_deg_s |-> I(100),
     yaw_rate_spike_threshold_deg_s |-> I(50),
     lateral_g_spike_threshold |-> R(1, 2)]

\* _check_completeness rejects a lap of fewer than 100 frames
MinFrames == 100

\* LapValidationResult with its defaults
LapValidationResult(is_valid, rejection_reason, overall_confidence, min_confidence, valid_segments, invalid_segments) ==
    [is_valid |-> is_valid, rejection_reason |-> rejection_reason,
     overall_confidence |-> overall_confidence,
     min_confidence |-> min_confidence,
     valid_segments |-> valid_segments,
     invalid_segments |-> invalid_segments]

Passed == LapValidationResult(TRUE, "NONE", Zero, Zero, <<>>, <<>>)

Rejected(reason) == LapValidationResult(FALSE, reason, Zero, Zero, <<>>, <<>>)

_check_completeness(lap) ==
    IF Len(lap.frames) < MinFrames THEN Rejected("INCOMPLETE_LAP")
    ELSE IF /\ lap.track_coverage_ratio # None
            /\ RLt(lap.track_coverage_ratio[1],
                   ValidationConfig.min_track_coverage_ratio)
    THEN Rejected("INCOMPLETE_LAP")
    ELSE Passed

\* [f.confidence for f in frames if f.confidence is not None]
Confidences(frames) ==
    LET known == SelectSeq(frames, LAMBDA f : f.confidence # None)
    IN  [i \in 1..Len(known) |-> known[i].confidence[1]]

_check_confidence(lap) ==
    LET confidences == Confidences(lap.frames)
    IN  IF confidences = <<>> THEN Rejected("LOW_OVERALL_CONFIDENCE")
        ELSE
        LET overall_confidence == MeanSeq(confidences)
            min_confidence == MinSeq(confidences)
            dropout_count ==
                Cardinality({i \in 1..Len(confidences) :
                    RLt(confidences[i], ValidationConfig.min_segment_confidence)})
            dropout_ratio == R(dropout_count, Len(confidences))
        IN  IF RLt(overall_confidence, ValidationConfig.min_overall_confidence)
            THEN LapValidationResult(FALSE, "LOW_OVERALL_CONFIDENCE",
                                     overall_confidence, min_confidence, <<>>, <<>>)
            ELSE IF RLt(ValidationConfig.max_confidence_dropout_ratio, dropout_ratio)
            THEN LapValidationResult(FALSE, "CONFIDENCE_DROPOUT",
                                     overall_confidence, min_confidence, <<>>, <<>>)
            ELSE LapValidationResult(TRUE, "NONE", overall_confidence,
                                     min_confidence, <<>>, <<>>)

_check_sensor_consistency(lap) ==
    LET disagreement_count ==
            Cardinality({i \in 1..Len(lap.frames) : lap.frames[i].sensor_disagreement})
        disagreement_ratio == R(disagreement_count, Len(lap.frames))
    IN  IF RLt(R(1, 20), disagreement_ratio) THEN Rejected("SENSOR_DISAGREEMENT")
        ELSE Passed

\* One pass of the loop of _check_driver_behavior: st is prev_frame with the
\* three counts so far. A frame whose timestamp does not advance is skipped
\* without becoming prev_frame.
BehaviorStep(st, frame) ==
    LET prev == st.prev_frame
        dt_ms == frame.timestamp_ms - prev.timestamp_ms
    IN  IF dt_ms <= 0 THEN st
        ELSE
        LET dt_s == R(dt_ms, 1000)
            steering_rate ==
                RDiv(I(Abs(frame.steering_angle_deg - prev.steering_angle_deg)), dt_s)
            yaw_change ==
                RDiv(I(Abs(frame.yaw_rate_deg_s - prev.yaw_rate_deg_s)), dt_s)
            g_diff == RSub(frame.lateral_g, prev.lateral_g)
            g_change == IF RLt(g_diff, Zero) THEN RNeg(g_diff) ELSE g_diff
        IN  [prev_frame |-> frame,
             correction_count |->
                 st.correction_count
                 + (IF RLt(ValidationConfig.steering_correction_threshold_deg_s,
                           steering_rate) THEN 1 ELSE 0),
             yaw_spike_count |->
                 st.yaw_spike_count
                 + (IF RLt(ValidationConfig.yaw_rate_spike_threshold_deg_s,
                           yaw_change) THEN 1 ELSE 0),
             g_spike_count |->
                 st.g_spike_count
                 + (IF /\ RLt(dt_s, R(3, 20))
                       /\ RLt(ValidationConfig.lateral_g_spike_threshold, g_change)
                    THEN 1 ELSE 0)]

\* The loop over frames[lo..hi] in order, started in st: the first half of the
\* range is run to its end (its counts are read) before the second half starts
RECURSIVE BehaviorLoop(_, _, _, _)
BehaviorLoop(frames, lo, hi, st) ==
    IF lo > hi THEN st
    ELSE IF lo = hi THEN BehaviorStep(st, frames[lo])
    ELSE LET mid == (lo + hi) \div 2
             first_half == BehaviorLoop(frames, lo, mid, st)
         IN  IF first_half.correction_count >= 0
             THEN BehaviorLoop(frames, mid + 1, hi, first_half)
             ELSE first_half

_check_driver_behavior(lap) ==
    LET counts ==
            IF lap.frames = <<>>
            THEN [correction_count |-> 0, yaw_spike_count |-> 0, g_spike_count |-> 0]
            ELSE BehaviorLoop(lap.frames, 2, Len(lap.frames),
                              [prev_frame |-> lap.frames[1], correction_count |-> 0,
                               yaw_spike_count |-> 0, g_spike_count |-> 0])
    IN  IF counts.correction_count > ValidationConfig.max_steering_correction_count
        THEN Rejected("ABRUPT_CORRECTIONS")
        ELSE IF counts.yaw_spike_count > ValidationConfig.max_yaw_rate_spike_count
        THEN Rejected("SPIN_DETECTED")
        ELSE IF counts.g_spike_count > ValidationConfig.max_lateral_g_spike_count
        THEN Rejected("ABRUPT_CORRECTIONS")
        ELSE Passed

\* The first frame with off_track set or longitudinal_g < -2.5 decides, the
\* off-track flag being looked at first within a frame
_check_for_incidents(lap) ==
    LET hits == {i \in 1..Len(lap.frames) :
                    \/ lap.frames[i].off_track
                    \/ RLt(lap.frames[i].longitudinal_g, R(-5, 2))}
    IN  IF hits = {} THEN Passed
        ELSE LET i == CHOOSE k \in hits : \A j \in hits : k <= j
             IN  IF lap.frames[i].off_track THEN Rejected("OFF_TRACK_EXCURSION")
                 ELSE Rejected("COLLISION_DETECTED")

\* The segment ids of the frames, in order of first appearance (the keys of
\* the segment_frames dict)
SegmentOrder(frames) ==
    LET firsts == {i \in 1..Len(frames) :
                      \A j \in 1..(i - 1) : frames[j].segment_id # frames[i].segment_id}
    IN  [k \in 1..Cardinality(firsts) |->
            frames[CHOOSE i \in firsts :
                       Cardinality({j \in firsts : j <= i}) = k].segment_id]

\* A segment is valid when the mean confidence of its frames is >= 0.7
SegmentIsValid(frames, seg_id) ==
    LET confidences == Confidences(SelectSeq(frames, LAMBDA f : f.segment_id = seg_id))
    IN  /\ confidences # <<>>
        /\ RLe(ValidationConfig.min_segment_confidence, MeanSeq(confidences))

\* <<valid_segments, invalid_segments>>
_identify_valid_segments(lap) ==
    LET order == SegmentOrder(lap.frames)
    IN  <<SelectSeq(order, LAMBDA s : SegmentIsValid(lap.frames, s)),
          SelectSeq(order, LAMBDA s : ~SegmentIsValid(lap.frames, s))>>

Accepted(lap) ==
    LET confidences == Confidences(lap.frames)
        segments == _identify_valid_segments(lap)
    IN  LapValidationResult(TRUE, "NONE",
                            IF confidences = <<>> THEN Zero ELSE MeanSeq(confidences),
                            IF confidences = <<>> THEN Zero ELSE MinSeq(confidences),
                            segments[1], segments[2])

ValidateLap_IncidentsFirst(lap) ==
    IF ~_check_for_incidents(lap).is_valid THEN _check_for_incidents(lap)
    ELSE IF ~_check_completeness(lap).is_valid THEN _check_completeness(lap)
    ELSE IF ~_check_confidence(lap).is_valid THEN _check_confidence(lap)
    ELSE IF ~_check_sensor_consistency(lap).is_valid THEN _check_sensor_consistency(lap)
    ELSE IF ~_check_driver_behavior(lap).is_valid THEN _check_driver_behavior(lap)
    ELSE Accepted(lap)

\* The result of validate_lap: each check in turn, returning the first result
\* that is not valid
ValidateLap(lap) ==
    IF ~_check_completeness(lap).is_valid THEN _check_completeness(lap)
    ELSE IF ~_check_confidence(lap).is_valid THEN _check_confidence(lap)
    ELSE IF ~_check_sensor_consistency(lap).is_valid THEN _check_sensor_consistency(lap)
    ELSE IF ~_check_driver_behavior(lap).is_valid THEN _check_driver_behavior(lap)
    ELSE IF ~_check_for_incidents(lap).is_valid THEN _check_for_incidents(lap)
    ELSE Accepted(lap)

validate_lap ==
    /\ lap_data # None
    /\ lastCall' = Call("validate_lap", None, Some(ValidateLap(lap_data[1])))
    /\ UNCHANGED <<learningVars, envelopeVars, voiceVars, lap_data, runtimeVars>>

-----------------------------------------------------------------------------
(* PhraseDictionary, CognitiveLoadModel and VoiceArbitrationEngine          *)
(* (phrase_dictionary.py, cognitive_model.py, arbitration.py). The engine  *)
(* is the one built on a dictionary object that serves the _PHRASES table: *)
(* PhraseDictionary.__init__ itself raises RuntimeError, the table having  *)
(* no entry for TURN_4, TURN_5, ESSES, TWO_HUNDRED_M, BRAKING_IMPROVED and *)
(* ENTRY_IMPROVED. Reasons are kept without their formatted numbers.       *)

Phrase(priority, allowed_phases, may_interrupt) ==
    [priority |-> priority, allowed_phases |-> allowed_phases,
     may_interrupt |-> may_interrupt]

\* The entries of PhraseDictionary._PHRASES for the keys requested here
_PHRASES ==
    [key \in {"INSTABILITY", "BRAKE_NOW", "WAIT_THROTTLE", "FIFTY_M", "TURN_1"} |->
        CASE key = "INSTABILITY" ->
                 Phrase(0, {"approach", "entry", "apex", "exit"}, TRUE)
          [] key = "BRAKE_NOW" -> Phrase(1, {"approach", "entry"}, FALSE)
          [] key = "WAIT_THROTTLE" -> Phrase(2, {"apex"}, FALSE)
          [] key = "FIFTY_M" -> Phrase(3, {"straight", "approach"}, FALSE)
          [] key = "TURN_1" -> Phrase(4, {"straight"}, FALSE)]

\* PhraseDictionary.get raises KeyError for a key without an entry
HasPhrase(key) == key \in DOMAIN _PHRASES

is_allowed_in_phase(key, phase) == phase \in _PHRASES[key].allowed_phases

VoiceRequest(phrase_key, timestamp_ms, confidence, corner_id) ==
    [phrase_key |-> phrase_key, timestamp_ms |-> timestamp_ms,
     confidence |-> confidence, corner_id |-> corner_id]

\* VoiceRequest.is_critical
is_critical(request) == request.phrase_key \in {"INSTABILITY", "LIMIT"}

VoiceDecision(action, phrase_key, reason, timestamp_ms) ==
    [action |-> action, phrase_key |-> phrase_key, reason |-> reason,
     timestamp_ms |-> timestamp_ms]

ArbitrationConfig ==
    [min_confidence_to_speak |-> R(17, 20),
     max_allowed_priority |-> 3,
     max_queue_size |-> 3,
     max_queue_age_ms |-> 2000,
     abort_on_phase_change |-> TRUE,
     abort_on_confidence_drop |-> TRUE]

CognitiveLoadConfig ==
    [min_message_interval_s |-> I(3),
     max_messages_per_lap |-> 10,
     max_messages_per_corner |-> 2,
     max_approach_messages |-> 1,
     max_exit_messages |-> 1,
     high_speed_threshold_kmh |-> I(150),
     very_high_speed_threshold_kmh |-> I(200),
     high_g_threshold |-> One,
     very_high_g_threshold |-> R(3, 2)]

_compute_load_level(phase, speed_kmh, lateral_g) ==
    LET abs_g == IF RLt(lateral_g, Zero) THEN RNeg(lateral_g) ELSE lateral_g
    IN  IF phase = "apex" THEN "CRITICAL"
        ELSE IF RLe(CognitiveLoadConfig.very_high_g_threshold, abs_g) THEN "CRITICAL"
        ELSE IF RLe(CognitiveLoadConfig.high_g_threshold, abs_g) THEN "HIGH"
        ELSE IF phase = "entry" THEN "HIGH"
        ELSE IF RLe(CognitiveLoadConfig.very_high_speed_threshold_kmh, speed_kmh)
        THEN "HIGH"
        ELSE IF RLe(CognitiveLoadConfig.high_speed_threshold_kmh, speed_kmh)
        THEN "MEDIUM"
        ELSE IF phase = "exit" THEN "MEDIUM"
        ELSE IF phase = "approach" THEN "MEDIUM"
        ELSE "LOW"

\* The model after compute_load: a new corner id resets the corner count
AfterComputeLoad(cog, corner_id) ==
    IF corner_id # cog.current_corner_id
    THEN [cog EXCEPT !.messages_this_corner = 0, !.current_corner_id = corner_id]
    ELSE cog

\* The CognitiveState compute_load returns
compute_load(cog, phase, speed_kmh, lateral_g, current_timestamp_ms, corner_id) ==
    LET after == AfterComputeLoad(cog, corner_id)
    IN  [level |-> _compute_load_level(phase, speed_kmh, lateral_g),
         phase |-> phase, speed_kmh |-> speed_kmh, lateral_g |-> lateral_g,
         time_since_last_message_s |->
             R(current_timestamp_ms - after.last_message_timestamp_ms, 1000),
         messages_this_lap |-> after.messages_this_lap,
         messages_this_corner |-> after.messages_this_corner]

can_speak_LoadIgnored(state, critical) ==
    IF critical
    THEN <<TRUE, "critical_override">>
    ELSE IF RLt(state.time_since_last_message_s,
                CognitiveLoadConfig.min_message_interval_s)
    THEN <<FALSE, "too_soon">>
    ELSE IF state.messages_this_lap >= CognitiveLoadConfig.max_messages_per_lap
    THEN <<FALSE, "lap_limit">>
    ELSE IF state.messages_this_corner >= CognitiveLoadConfig.max_messages_per_corner
    THEN <<FALSE, "corner_limit">>
    ELSE <<TRUE, "allowed">>

\* <<can_speak, reason>>
can_speak(state, critical) ==
    IF critical
    THEN IF state.level = "CRITICAL" /\ RLt(R(3, 2), state.lateral_g)
         THEN <<FALSE, "extreme_workload">>
         ELSE <<TRUE, "critical_override">>
    ELSE IF state.phase = "apex" THEN <<FALSE, "apex_phase">>
    ELSE IF state.level = "CRITICAL" THEN <<FALSE, "critical_load">>
    ELSE IF state.level = "HIGH" THEN <<FALSE, "high_load">>
    ELSE IF RLt(state.time_since_last_message_s,
                CognitiveLoadConfig.min_message_interval_s)
    THEN <<FALSE, "too_soon">>
    ELSE IF state.messages_this_lap >= CognitiveLoadConfig.max_messages_per_lap
    THEN <<FALSE, "lap_limit">>
    ELSE IF state.messages_this_corner >= CognitiveLoadConfig.max_messages_per_corner
    THEN <<FALSE, "corner_limit">>
    ELSE IF /\ state.phase = "approach"
            /\ state.messages_this_corner >= CognitiveLoadConfig.max_approach_messages
    THEN <<FALSE, "approach_limit">>
    ELSE IF /\ state.phase = "exit"
            /\ state.messages_this_corner >= CognitiveLoadConfig.max_exit_messages
    THEN <<FALSE, "exit_limit">>
    ELSE <<TRUE, "allowed">>

record_message(cog, timestamp_ms) ==
    [cog EXCEPT !.last_message_timestamp_ms = timestamp_ms,
                !.messages_this_lap = @ + 1,
                !.messages_this_corner = @ + 1]

\* list.sort(key=priority): a stable sort, by rising priority number or, with
\* reverse=True, by falling priority number
SortByPriority(requests, reverse) ==
    LET prio(i) == _PHRASES[requests[i].phrase_key].priority
        Before(j, i) ==
            \/ IF reverse THEN prio(j) > prio(i) ELSE prio(j) < prio(i)
            \/ prio(j) = prio(i) /\ j < i
        place(i) == Cardinality({j \in 1..Len(requests) : Before(j, i)}) + 1
    IN  [k \in 1..Len(requests) |->
            requests[CHOOSE i \in 1..Len(requests) : place(i) = k]]

_add_to_queue(pending, request) ==
    IF Len(pending) >= ArbitrationConfig.max_queue_size
    THEN LET sorted == SortByPriority(pending, TRUE)
         IN  Append(SubSeq(sorted, 1, Len(sorted) - 1), request)
    ELSE Append(pending, request)

\* The speed and lateral g submit_request hands to compute_load
AssumedSpeedKmh == I(100)

AssumedLateralG == R(1, 2)

Outcome(eng, cog, decision) ==
    [engine |-> eng, cognitive |-> cog, decision |-> decision]

Suppress(request, reason) ==
    VoiceDecision("SUPPRESS", None, reason, request.timestamp_ms)

\* submit_request from gate 5 on: conflict resolution, duplicate check, approval
ResolveAndApprove(eng, cog, request) ==
    LET phrase == _PHRASES[request.phrase_key]
    IN  IF eng.is_speaking
        THEN IF phrase.may_interrupt
             THEN Outcome(eng, cog,
                      VoiceDecision("SPEAK", Some(request.phrase_key),
                                    <<"interrupt">>, request.timestamp_ms))
             ELSE Outcome([eng EXCEPT !.pending_requests =
                                          _add_to_queue(@, request)],
                          cog,
                          VoiceDecision("QUEUE", Some(request.phrase_key),
                                        <<"queued_behind_active">>,
                                        request.timestamp_ms))
        ELSE IF /\ eng.last_spoken_key = Some(request.phrase_key)
                /\ request.timestamp_ms - eng.last_spoken_time_ms < 5000
        THEN Outcome(eng, cog, Suppress(request, <<"duplicate_recent">>))
        ELSE Outcome([eng EXCEPT !.last_spoken_key = Some(request.phrase_key),
                                 !.last_spoken_time_ms = request.timestamp_ms],
                     record_message(cog, request.timestamp_ms),
                     VoiceDecision("SPEAK", Some(request.phrase_key),
                                   <<"approved">>, request.timestamp_ms))

\* submit_request from gate 2 on: phase, cognitive load, priority, then the rest
AfterConfidenceGate(eng, cog, request) ==
    LET phrase == _PHRASES[request.phrase_key]
        phase_name == eng.current_phase
        cognitive_state ==
            compute_load(cog, eng.current_phase, AssumedSpeedKmh, AssumedLateralG,
                         request.timestamp_ms, request.corner_id)
        loaded == AfterComputeLoad(cog, request.corner_id)
        verdict == can_speak(cognitive_state, is_critical(request))
    IN  IF /\ ~is_allowed_in_phase(request.phrase_key, phase_name)
           /\ ~(is_critical(request) /\ phrase.may_interrupt)
        THEN Outcome(eng, cog, Suppress(request, <<"phase_not_allowed", phase_name>>))
        ELSE IF ~verdict[1]
        THEN Outcome(eng, loaded, Suppress(request, <<"cognitive_load", verdict[2]>>))
        ELSE IF /\ phrase.priority > ArbitrationConfig.max_allowed_priority
                /\ ~is_critical(request)
        THEN Outcome(eng, loaded, Suppress(request, <<"low_priority">>))
        ELSE ResolveAndApprove(eng, loaded, request)

Submit_CriticalSkipsConfidence(eng, cog, request) ==
    IF ~HasPhrase(request.phrase_key)
    THEN Outcome(eng, cog, Suppress(request, <<"unknown_phrase_key">>))
    ELSE IF /\ RLt(request.confidence, ArbitrationConfig.min_confidence_to_speak)
            /\ ~is_critical(request)
    THEN Outcome(eng, cog, Suppress(request, <<"low_confidence">>))
    ELSE AfterConfidenceGate(eng, cog, request)

\* The engine, the cognitive model and the decision after submit_request
Submit(eng, cog, request) ==
    IF ~HasPhrase(request.phrase_key)
    THEN Outcome(eng, cog, Suppress(request, <<"unknown_phrase_key">>))
    ELSE IF RLt(request.confidence, ArbitrationConfig.min_confidence_to_speak)
    THEN Outcome(eng, cog, Suppress(request, <<"low_confidence">>))
    ELSE AfterConfidenceGate(eng, cog, request)

\* The approvals of one lap the model follows
MaxMessages == 2

submit_request(request) ==
    /\ cognitive.messages_this_lap < MaxMessages
    /\ LET out == Submit(engine, cognitive, request)
       IN  /\ engine' = out.engine
           /\ cognitive' = out.cognitive
           /\ lastCall' = Call("submit_request", Some(request), Some(out.decision))
    /\ UNCHANGED <<learningVars, envelopeVars, lap_data, runtimeVars>>

\* now_ms is int(time.time() * 1000)
update_phase(phase, now_ms) ==
    /\ engine' = [engine EXCEPT !.current_phase = phase]
    /\ lastCall' =
           Call("update_phase", Some(phase),
                IF /\ ArbitrationConfig.abort_on_phase_change
                   /\ engine.is_speaking
                   /\ phase = "apex"
                   /\ engine.current_phase # "apex"
                THEN Some(VoiceDecision("ABORT", None,
                                        <<"phase_changed_to_apex">>, now_ms))
                ELSE None)
    /\ UNCHANGED <<cognitive, learningVars, envelopeVars, lap_data, runtimeVars>>

update_confidence(confidence, now_ms) ==
    /\ lastCall' =
           Call("update_confidence", Some(confidence),
                IF /\ ArbitrationConfig.abort_on_confidence_drop
                   /\ engine.is_speaking
                   /\ RLt(confidence, ArbitrationConfig.min_confidence_to_speak)
                THEN Some(VoiceDecision("ABORT", None,
                                        <<"confidence_dropped">>, now_ms))
                ELSE None)
    /\ UNCHANGED <<engine, cognitive, learningVars, envelopeVars, lap_data, runtimeVars>>

\* The queue without its stale requests
Fresh(pending, now_ms) ==
    SelectSeq(pending,
              LAMBDA r : now_ms - r.timestamp_ms < ArbitrationConfig.max_queue_age_ms)

get_next_queued(now_ms) ==
    LET fresh == Fresh(engine.pending_requests, now_ms)
        sorted == SortByPriority(fresh, FALSE)
    IN  /\ IF engine.pending_requests = <<>>
           THEN /\ engine' = engine
                /\ lastCall' = Call("get_next_queued", None, None)
           ELSE IF fresh = <<>>
           THEN /\ engine' = [engine EXCEPT !.pending_requests = <<>>]
                /\ lastCall' = Call("get_next_queued", None, None)
           ELSE /\ engine' = [engine EXCEPT !.pending_requests = Tail(sorted)]
                /\ lastCall' = Call("get_next_queued", None, Some(Head(sorted)))
        /\ UNCHANGED <<cognitive, learningVars, envelopeVars, lap_data, runtimeVars>>

mark_speaking_started ==
    /\ engine' = [engine EXCEPT !.is_speaking = TRUE]
    /\ lastCall' = Call("mark_speaking_started", None, None)
    /\ UNCHANGED <<cognitive, learningVars, envelopeVars, lap_data, runtimeVars>>

mark_speaking_finished ==
    /\ engine' = [engine EXCEPT !.is_speaking = FALSE]
    /\ lastCall' = Call("mark_speaking_finished", None, None)
    /\ UNCHANGED <<cognitive, learningVars, envelopeVars, lap_data, runtimeVars>>

new_lap ==
    /\ cognitive' = [cognitive EXCEPT !.messages_this_lap = 0,
                                      !.messages_this_corner = 0,
                                      !.current_corner_id = -1]
    /\ engine' = [engine EXCEPT !.pending_requests = <<>>]
    /\ lastCall' = Call("new_lap", None, None)
    /\ UNCHANGED <<learningVars, envelopeVars, lap_data, runtimeVars>>

reset_engine ==
    /\ cognitive' = [last_message_timestamp_ms |-> 0, messages_this_lap |-> 0,
                     messages_this_corner |-> 0, current_corner_id |-> -1]
    /\ engine' = [pending_requests |-> <<>>, last_spoken_key |-> None,
                  last_spoken_time_ms |-> 0, current_phase |-> "straight",
                  is_speaking |-> FALSE]
    /\ lastCall' = Call("reset", None, None)
    /\ UNCHANGED <<learningVars, envelopeVars, lap_data, runtimeVars>>

-----------------------------------------------------------------------------
(* ModeController (runtime/mode_controller.py). The timestamps of the mode *)
(* history (datetime.now()) are left out; mode_trace is a history variable *)
(* and no part of the controller.                                          *)

ModeRequirements(min_clean_laps, min_track_coverage, min_confidence, max_sensor_issues, voice_enabled, learning_enabled) ==
    [min_clean_laps |-> min_clean_laps, min_track_coverage |-> min_track_coverage,
     min_confidence |-> min_confidence, max_sensor_issues |-> max_sensor_issues,
     voice_enabled |-> voice_enabled, learning_enabled |-> learning_enabled]

\* OFF has no entry
MODE_REQUIREMENTS ==
    [mode \in {"SILENT", "LEARNING", "COACHING", "DEGRADED"} |->
        CASE mode = "SILENT" -> ModeRequirements(0, Zero, Zero, 999, FALSE, TRUE)
          [] mode = "LEARNING" ->
                 ModeRequirements(1, R(9, 10), R(7, 10), 5, TRUE, TRUE)
          [] mode = "COACHING" ->
                 ModeRequirements(3, R(19, 20), R(17, 20), 2, TRUE, TRUE)
          [] mode = "DEGRADED" -> ModeRequirements(0, Zero, Zero, 999, TRUE, FALSE)]

\* OperatingMode.value, numbered by auto()
ModeValue(mode) ==
    CASE mode = "SILENT" -> 1
      [] mode = "LEARNING" -> 2
      [] mode = "COACHING" -> 3
      [] mode = "DEGRADED" -> 4
      [] mode = "OFF" -> 5

InitialController ==
    [current_mode |-> "SILENT", previous_mode |-> None, clean_lap_count |-> 0,
     track_coverage |-> Zero, current_confidence |-> Zero,
     sensor_issue_count |-> 0, mode_history |-> <<>>]

InitialModeTrace ==
    [reported_clean_lap |-> FALSE, reported_for_learning |-> FALSE,
     reported_for_coaching |-> FALSE, forced |-> FALSE, degraded_from |-> None]

\* ModeController.voice_enabled
voice_enabled(c) == MODE_REQUIREMENTS[c.current_mode].voice_enabled

_should_degrade(c) ==
    IF c.current_mode = "DEGRADED" THEN FALSE
    ELSE IF c.current_mode = "OFF" THEN FALSE
    ELSE IF RLt(c.current_confidence, R(1, 2)) THEN TRUE
    ELSE IF c.sensor_issue_count > 10 THEN TRUE
    ELSE FALSE

_can_recover(c) ==
    IF c.previous_mode = None
    THEN RLe(R(7, 10), c.current_confidence)
    ELSE LET requirements == MODE_REQUIREMENTS[c.previous_mode[1]]
         IN  /\ RLe(requirements.min_confidence, c.current_confidence)
             /\ c.sensor_issue_count <= requirements.max_sensor_issues

_meets_requirements(c, mode) ==
    LET req == MODE_REQUIREMENTS[mode]
    IN  /\ c.clean_lap_count >= req.min_clean_laps
        /\ RLe(req.min_track_coverage, c.track_coverage)
        /\ RLe(req.min_confidence, c.current_confidence)
        /\ c.sensor_issue_count <= req.max_sensor_issues

\* The first of COACHING, LEARNING above the current mode whose requirements
\* are met, else None
_check_upgrade(c) ==
    IF c.current_mode = "OFF" THEN None
    ELSE IF c.current_mode = "DEGRADED" THEN None
    ELSE IF /\ ModeValue("COACHING") > ModeValue(c.current_mode)
            /\ _meets_requirements(c, "COACHING")
    THEN Some("COACHING")
    ELSE IF /\ ModeValue("LEARNING") > ModeValue(c.current_mode)
            /\ _meets_requirements(c, "LEARNING")
    THEN Some("LEARNING")
    ELSE None

\* previous_mode is written only when the target is not DEGRADED
_transition_to(c, mode, reason) ==
    [c EXCEPT !.previous_mode = IF mode # "DEGRADED" THEN Some(c.current_mode) ELSE @,
              !.current_mode = mode,
              !.mode_history = Append(@, <<mode, reason>>)]

\* <<controller after update_state, the mode returned or None>>
UpdateState(c, clean_laps, track_coverage, confidence, sensor_issues) ==
    LET stored == [c EXCEPT !.clean_lap_count = clean_laps,
                            !.track_coverage = track_coverage,
                            !.current_confidence = confidence,
                            !.sensor_issue_count = sensor_issues]
        new_mode == _check_upgrade(stored)
    IN  IF _should_degrade(stored)
        THEN <<_transition_to(stored, "DEGRADED", "quality_degraded"), Some("DEGRADED")>>
        ELSE IF stored.current_mode = "DEGRADED" /\ _can_recover(stored)
        THEN LET target == IF stored.previous_mode # None
                           THEN stored.previous_mode[1] ELSE "LEARNING"
             IN  <<_transition_to(stored, target, "recovered"), Some(target)>>
        ELSE IF new_mode # None /\ new_mode[1] # stored.current_mode
        THEN <<_transition_to(stored, new_mode[1], "requirements_met"), new_mode>>
        ELSE <<stored, None>>

\* The mode left when DEGRADED was entered, None outside DEGRADED
DegradedFrom(before, after, was) ==
    IF after # "DEGRADED" THEN None
    ELSE IF before # "DEGRADED" THEN Some(before)
    ELSE was

\* The transitions of the mode history the model follows
MaxHistory == 3

update_state(clean_laps, track_coverage, confidence, sensor_issues) ==
    /\ Len(controller.mode_history) < MaxHistory
    /\ LET out == UpdateState(controller, clean_laps, track_coverage,
                              confidence, sensor_issues)
       IN  /\ controller' = out[1]
           /\ mode_trace' =
                  [mode_trace EXCEPT
                      !.reported_clean_lap = @ \/ clean_laps >= 1,
                      !.reported_for_learning =
                          @ \/ (clean_laps >= 1 /\ RLe(R(9, 10), track_coverage)),
                      !.reported_for_coaching =
                          @ \/ (clean_laps >= 3 /\ RLe(R(19, 20), track_coverage)),
                      !.degraded_from =
                          DegradedFrom(controller.current_mode,
                                       out[1].current_mode, @)]
           /\ lastCall' = Call("update_state",
                               Some([clean_laps |-> clean_laps,
                                     track_coverage |-> track_coverage,
                                     confidence |-> confidence,
                                     sensor_issues |-> sensor_issues]),
                               out[2])
    /\ UNCHANGED <<learningVars, envelopeVars, voiceVars, lap_data, loopVars>>

force_mode(mode) ==
    /\ Len(controller.mode_history) < MaxHistory
    /\ controller' = _transition_to(controller, mode, "manual")
    /\ mode_trace' =
           [mode_trace EXCEPT
               !.forced = TRUE,
               !.degraded_from = DegradedFrom(controller.current_mode, mode, @)]
    /\ lastCall' = Call("force_mode", Some(mode), None)
    /\ UNCHANGED <<learningVars, envelopeVars, voiceVars, lap_data, loopVars>>

reset_controller ==
    /\ controller' = InitialController
    /\ mode_trace' = InitialModeTrace
    /\ lastCall' = Call("reset", None, None)
    /\ UNCHANGED <<learningVars, envelopeVars, voiceVars, lap_data, loopVars>>

-----------------------------------------------------------------------------
(* MainLoop (runtime/main_loop.py). A registered callback returns, raises  *)
(* an exception, or raises one whose str() raises in turn; the outcome of  *)
(* the on_error callback has no effect on the loop. failing_streak is a    *)
(* history variable and no part of the loop.                               *)

LoopConfig ==
    [target_hz |-> 50,
     max_loop_time_ms |-> I(15),
     warning_loop_time_ms |-> I(10),
     watchdog_timeout_ms |-> I(100),
     max_consecutive_errors |-> 3,
     error_recovery_delay_ms |-> I(50)]

\* min_time_ms starts at float('inf'), written None here
LoopMetrics ==
    [loop_count |-> 0, total_time_ms |-> Zero, min_time_ms |-> None,
     max_time_ms |-> Zero, avg_time_ms |-> Zero, overrun_count |-> 0,
     error_count |-> 0, last_loop_time_ms |-> Zero, last_loop_timestamp_ms |-> 0]

\* The phases of an iteration, in the order they are executed
PhaseOrder == <<"sensor", "fusion", "detection", "voice", "log">>

NoCallbacks == [name \in {"sensor", "fusion", "detection", "voice", "log"} |-> "none"]

InitialLoop ==
    [state |-> "INITIALIZING", metrics |-> LoopMetrics,
     consecutive_errors |-> 0, last_error |-> None]

\* The result dict of one phase; a raising callback is recorded, not passed on
_execute_phase(name, callback) ==
    [name |-> name,
     executed |-> callback = "returns",
     error |-> IF callback = "raises" THEN Some("error") ELSE None]

\* The number of phases run before str(e) raises out of _execute_phase, or
\* the number of all phases
PhasesRun(cbs) ==
    LET broken == {i \in 1..Len(PhaseOrder) : cbs[PhaseOrder[i]] = "raises_unprintable"}
    IN  IF broken = {} THEN Len(PhaseOrder)
        ELSE (CHOOSE i \in broken : \A j \in broken : i <= j) - 1

_handle_error(l) ==
    LET counted == [l EXCEPT !.consecutive_errors = @ + 1,
                             !.last_error = Some("error"),
                             !.metrics.error_count = @ + 1]
    IN  IF counted.consecutive_errors >= LoopConfig.max_consecutive_errors
        THEN [counted EXCEPT !.state = "DEGRADED"]
        ELSE counted

_update_metrics(m, loop_time_ms, timestamp_ms) ==
    LET total == RAdd(m.total_time_ms, loop_time_ms)
    IN  [loop_count |-> m.loop_count + 1,
         total_time_ms |-> total,
         min_time_ms |-> IF m.min_time_ms = None \/ RLt(loop_time_ms, m.min_time_ms[1])
                         THEN Some(loop_time_ms) ELSE m.min_time_ms,
         max_time_ms |-> IF RLt(m.max_time_ms, loop_time_ms)
                         THEN loop_time_ms ELSE m.max_time_ms,
         avg_time_ms |-> RDiv(total, I(m.loop_count + 1)),
         overrun_count |-> IF RLt(LoopConfig.max_loop_time_ms, loop_time_ms)
                           THEN m.overrun_count + 1 ELSE m.overrun_count,
         error_count |-> m.error_count,
         last_loop_time_ms |-> loop_time_ms,
         last_loop_timestamp_ms |-> timestamp_ms]

\* <<loop after run_single_iteration, the results dict>>
RunIteration(l, cbs, timestamp_ms, loop_time_ms) ==
    LET entered == IF l.state \notin {"RUNNING", "DEGRADED"}
                   THEN [l EXCEPT !.state = "RUNNING"] ELSE l
        run == PhasesRun(cbs)
        phases == [i \in 1..run |-> _execute_phase(PhaseOrder[i], cbs[PhaseOrder[i]])]
        tried == IF run = Len(PhaseOrder)
                 THEN [entered EXCEPT !.consecutive_errors = 0]
                 ELSE _handle_error(entered)
    IN  <<[tried EXCEPT !.metrics = _update_metrics(@, loop_time_ms, timestamp_ms)],
          [timestamp_ms |-> timestamp_ms, phases |-> phases,
           error |-> IF run = Len(PhaseOrder) THEN None ELSE Some("error"),
           loop_time_ms |-> loop_time_ms,
           overrun |-> RLt(LoopConfig.max_loop_time_ms, loop_time_ms)]>>

\* Some callback called in the iteration raised
CallbackRaised(cbs) ==
    \E i \in 1..Len(PhaseOrder) :
        /\ i <= PhasesRun(cbs) + 1
        /\ cbs[PhaseOrder[i]] \in {"raises", "raises_unprintable"}

\* The iterations the model follows between two initialize calls
MaxIterations == 3

register_callbacks(cbs) ==
    /\ callbacks' = cbs
    /\ lastCall' = Call("register_callbacks", Some(cbs), None)
    /\ UNCHANGED <<loop, failing_streak, learningVars, envelopeVars, voiceVars, lap_data, modeVars>>

initialize ==
    /\ loop' = [loop EXCEPT !.state = "READY", !.metrics = LoopMetrics,
                            !.consecutive_errors = 0]
    /\ failing_streak' = 0
    /\ lastCall' = Call("initialize", None, Some(TRUE))
    /\ UNCHANGED <<callbacks, learningVars, envelopeVars, voiceVars, lap_data, modeVars>>

\* loop_time_ms is the time measured with time.perf_counter()
run_single_iteration(timestamp_ms, loop_time_ms) ==
    /\ loop.metrics.loop_count < MaxIterations
    /\ LET out == RunIteration(loop, callbacks, timestamp_ms, loop_time_ms)
       IN  /\ loop' = out[1]
           /\ lastCall' = Call("run_single_iteration", Some(timestamp_ms), Some(out[2]))
    /\ failing_streak' = IF CallbackRaised(callbacks) THEN failing_streak + 1 ELSE 0
    /\ UNCHANGED <<callbacks, learningVars, envelopeVars, voiceVars, lap_data, modeVars>>

pause ==
    /\ loop' = [loop EXCEPT !.state = "PAUSED"]
    /\ lastCall' = Call("pause", None, None)
    /\ UNCHANGED <<callbacks, failing_streak, learningVars, envelopeVars, voiceVars, lap_data, modeVars>>

resume ==
    /\ loop' = IF loop.state = "PAUSED" THEN [loop EXCEPT !.state = "RUNNING"] ELSE loop
    /\ lastCall' = Call("resume", None, None)
    /\ UNCHANGED <<callbacks, failing_streak, learningVars, envelopeVars, voiceVars, lap_data, modeVars>>

shutdown ==
    /\ loop' = [loop EXCEPT !.state = "SHUTDOWN"]
    /\ lastCall' = Call("shutdown", None, None)
    /\ UNCHANGED <<callbacks, failing_streak, learningVars, envelopeVars, voiceVars, lap_data, modeVars>>

InitRuntime ==
    /\ controller = InitialController
    /\ mode_trace = InitialModeTrace
    /\ loop = InitialLoop
    /\ callbacks = NoCallbacks
    /\ failing_streak = 0

-----------------------------------------------------------------------------
(* The store on its own: a fresh SegmentStatsStore and its public calls.    *)

InitStore ==
    /\ observations = <<>>
    /\ stats = <<>>

\* EnvelopeManager.__init__: no envelopes, no track length
InitEnvelope ==
    /\ segment_envelopes = <<>>
    /\ track_length_m = 0

\* VoiceArbitrationEngine.__init__ and CognitiveLoadModel.__init__
InitVoice ==
    /\ engine = [pending_requests |-> <<>>, last_spoken_key |-> None,
                 last_spoken_time_ms |-> 0, current_phase |-> "straight",
                 is_speaking |-> FALSE]
    /\ cognitive = [last_message_timestamp_ms |-> 0, messages_this_lap |-> 0,
                    messages_this_corner |-> 0, current_corner_id |-> -1]

InitDecay ==
    /\ previous_conditions = None
    /\ decay_history = {}

InitBlend ==
    /\ config = DefaultBlendConfig
    /\ physics_value = I(100)
    /\ stats_arg = None
    /\ result = NoResult

Init ==
    /\ max_observations = MaxObservations
    /\ InitStore
    /\ InitDecay
    /\ InitBlend
    /\ InitEnvelope
    /\ InitVoice
    /\ lap_data = None
    /\ InitRuntime
    /\ lastCall = Call("__init__", None, None)

Next ==
    \/ \E o \in ObservationInputs : add_observation(o)
    \/ \E s \in Segments, f \in DecayInputs : apply_decay(s, f)
    \/ \E f \in DecayInputs : apply_global_decay(f)
    \/ \E s \in Segments : clear_segment(s)
    \/ clear_all

Spec == Init /\ [][Next]_vars

-----------------------------------------------------------------------------
(* The Decay Manager with the store it was constructed on: the condition   *)
(* monitor feeds snapshots, the clock advances, resets are requested, and  *)
(* clean passes keep arriving at the store.                                *)

NextDecay ==
    \/ \E c \in ConditionInputs : update_conditions(c)
    \/ \E now \in Clock : apply_age_decay(now)
    \/ reset_all_learning
    \/ \E s \in Segments : reset_segment_learning(s)
    \/ \E s \in Segments : add_observation(FastPass(s))

SpecDecay == Init /\ [][NextDecay]_vars

-----------------------------------------------------------------------------
(* The Decay Manager on a store built with the default window capacity:    *)
(* clean passes at full confidence pile up lap after lap while the         *)
(* condition monitor reports dry and wet snapshots.                        *)

\* SegmentStatsStore(max_observations_per_segment=100), the default
DefaultMaxObservations == 100

\* Clean passes recorded per segment before the session ends
WeatherPasses == 31

WeatherInputs == {Baseline, WetOnWets}

WindowLen(s) == IF s \in DOMAIN observations THEN Len(observations[s]) ELSE 0

InitWeather ==
    /\ max_observations = DefaultMaxObservations
    /\ InitStore
    /\ InitDecay
    /\ InitBlend
    /\ InitEnvelope
    /\ InitVoice
    /\ lap_data = None
    /\ InitRuntime
    /\ lastCall = Call("__init__", None, None)

NextWeather ==
    \/ \E s \in Segments : WindowLen(s) < WeatherPasses /\ add_observation(FastPass(s))
    \/ \E c \in WeatherInputs : update_conditions(c)

SpecWeather == InitWeather /\ [][NextWeather]_vars

-----------------------------------------------------------------------------
(* The Envelope Manager on its own: tracks are built, learned speeds are   *)
(* fed back, distances are queried and advisories are asked for.           *)

\* A 600 m circuit: a straight, a tight corner, and a fast corner whose
\* geometry confidence is below the 0.7 threshold
Circuit ==
    TrackModel(600,
        <<TrackSegment(1, 0, 200, FALSE, None, R(9, 10)),
          TrackSegment(2, 200, 300, TRUE, Some(I(50)), R(9, 10)),
          TrackSegment(3, 300, 600, TRUE, Some(I(200)), R(1, 2))>>)

\* A 1000 m stage whose segments leave gaps: a straight, then a hairpin whose
\* physics limit falls below the absolute minimum speed
Stage ==
    TrackModel(1000,
        <<TrackSegment(7, 0, 400, FALSE, None, R(9, 10)),
          TrackSegment(5, 450, 600, TRUE, Some(I(2)), R(9, 10))>>)

Tracks == {Circuit, Stage}

SegmentIds == {1, 2, 5, 9}

LearnedSpeeds == {I(40), I(400)}

BlendWeights == {R(-1, 2), R(1, 5), One}

QueryDistances == {-350, 0, 150, 250, 299, 420, 850, 1600}

CurrentSpeeds == {I(60), I(100), I(300)}

NextEnvelope ==
    \/ \E track \in Tracks : build_envelopes(track)
    \/ \E s \in SegmentIds, v \in LearnedSpeeds, w \in BlendWeights :
           update_from_learning(s, v, w)
    \/ \E d \in QueryDistances : get_envelope_at_distance(d)
    \/ \E d \in QueryDistances : get_speed_limit_at_distance(d)
    \/ \E d \in QueryDistances, v \in CurrentSpeeds : compute_brake_advisory(d, v)
    \/ reset_envelopes

SpecEnvelope == Init /\ [][NextEnvelope]_vars

-----------------------------------------------------------------------------
(* The Lap Validator on its own: a recorded lap is drawn and validated.    *)
(* Frames are 100 ms apart; the lap spends its first half in segment 1     *)
(* and the rest in segment 2.                                              *)

TelemetryFrame(timestamp_ms, confidence, sensor_disagreement, steering_angle_deg, yaw_rate_deg_s, lateral_g, off_track, longitudinal_g, segment_id) ==
    [timestamp_ms |-> timestamp_ms, confidence |-> confidence,
     sensor_disagreement |-> sensor_disagreement,
     steering_angle_deg |-> steering_angle_deg,
     yaw_rate_deg_s |-> yaw_rate_deg_s, lateral_g |-> lateral_g,
     off_track |-> off_track, longitudinal_g |-> longitudinal_g,
     segment_id |-> segment_id]

\* What a recorded lap is made of
FrameCounts == {99, 100}

Coverages == {None, Some(R(9, 10)), Some(One)}

ConfidencePatterns == {"high", "low", "dropout", "edge_dropout", "none"}

DisagreementCounts == {0, 5, 6}

BehaviourPatterns ==
    {"smooth", "corrections", "five_corrections", "spin", "g_spikes",
     "corrections_and_spin", "stalled_clock"}

IncidentPatterns == {"none", "off_track", "collision", "collision_then_off_track",
                     "hard_braking"}

\* Frame i of a lap of the given patterns
LapFrame(i, confidence, disagreements, behaviour, incident) ==
    LET zigzag(last) == i <= last /\ i % 2 = 1
    IN  TelemetryFrame(
            IF behaviour = "stalled_clock" /\ i <= 8 THEN 100 ELSE 100 * i,
            CASE confidence = "high" -> Some(R(9, 10))
              [] confidence = "low" -> Some(R(3, 4))
              [] confidence = "dropout" ->
                     IF i <= 15 THEN Some(R(3, 5)) ELSE Some(R(19, 20))
              [] confidence = "edge_dropout" ->
                     IF i <= 10 THEN Some(R(3, 5)) ELSE Some(R(19, 20))
              [] confidence = "none" -> None,
            i <= disagreements,
            IF /\ behaviour \in {"corrections", "corrections_and_spin", "stalled_clock"}
               /\ zigzag(7) THEN 20
            ELSE IF behaviour = "five_corrections" /\ zigzag(5) THEN 20
            ELSE 0,
            IF behaviour \in {"spin", "corrections_and_spin"} /\ zigzag(5)
            THEN 10 ELSE 0,
            IF behaviour = "g_spikes" /\ zigzag(5) THEN One ELSE Zero,
            incident \in {"off_track", "collision_then_off_track"} /\ i = 50,
            IF incident \in {"collision", "collision_then_off_track"} /\ i = 30
            THEN I(-3)
            ELSE IF incident = "hard_braking" /\ i = 30 THEN R(-5, 2)
            ELSE Zero,
            IF i <= 50 THEN 1 ELSE 2)

LapInputs ==
    {[frames |-> [i \in 1..n |-> LapFrame(i, c, d, b, x)],
      track_coverage_ratio |-> cov] :
        n \in FrameCounts, cov \in Coverages, c \in ConfidencePatterns,
        d \in DisagreementCounts, b \in BehaviourPatterns, x \in IncidentPatterns}

InitLap ==
    /\ max_observations = MaxObservations
    /\ InitStore
    /\ InitDecay
    /\ InitBlend
    /\ InitEnvelope
    /\ InitVoice
    /\ lap_data \in {Some(lap) : lap \in LapInputs}
    /\ InitRuntime
    /\ lastCall = Call("__init__", None, None)

NextLap == validate_lap

SpecLap == InitLap /\ [][NextLap]_vars

-----------------------------------------------------------------------------
(* The arbitration engine on its own: requests, phase changes, speech      *)
(* start and finish, the queue, laps and resets.                           *)

Phases == {"straight", "approach", "entry", "apex", "exit"}

\* TURN_4 is a PhraseKey without an entry in _PHRASES
PhraseKeys ==
    {"INSTABILITY", "BRAKE_NOW", "WAIT_THROTTLE", "FIFTY_M", "TURN_1", "TURN_4"}

Timestamps == {1000, 4000}

Clocks == {2000, 5000}

RequestConfidences == {R(1, 2), R(17, 20)}

CornerIds == {1}

Requests ==
    {VoiceRequest(k, t, c, id) :
        k \in PhraseKeys, t \in Timestamps, c \in RequestConfidences, id \in CornerIds}

NextVoice ==
    \/ \E request \in Requests : submit_request(request)
    \/ \E phase \in Phases, now_ms \in Clocks : update_phase(phase, now_ms)
    \/ \E confidence \in RequestConfidences, now_ms \in Clocks :
           update_confidence(confidence, now_ms)
    \/ \E now_ms \in Clocks : get_next_queued(now_ms)
    \/ mark_speaking_started
    \/ mark_speaking_finished
    \/ new_lap
    \/ reset_engine

SpecVoice == Init /\ [][NextVoice]_vars

-----------------------------------------------------------------------------
(* The mode controller on its own: state reports, forced modes and resets. *)

CleanLapCounts == {0, 1, 3}

TrackCoverages == {Zero, R(9, 10), R(19, 20)}

SystemConfidences == {R(2, 5), R(1, 2), R(7, 10), R(17, 20)}

SensorIssueCounts == {0, 3, 11}

\* OFF, which has no requirements, is never forced
ForcedModes == {"SILENT", "LEARNING", "COACHING", "DEGRADED"}

NextMode ==
    \/ \E clean_laps \in CleanLapCounts, track_coverage \in TrackCoverages,
          confidence \in SystemConfidences, sensor_issues \in SensorIssueCounts :
           update_state(clean_laps, track_coverage, confidence, sensor_issues)
    \/ \E mode \in ForcedModes : force_mode(mode)
    \/ reset_controller

SpecMode == Init /\ [][NextMode]_vars

-----------------------------------------------------------------------------
(* The main loop on its own: callbacks, iterations, pause, resume,         *)
(* shutdown and initialize.                                                *)

CallbackSets ==
    {NoCallbacks,
     [NoCallbacks EXCEPT !["sensor"] = "returns", !["voice"] = "returns"],
     [NoCallbacks EXCEPT !["sensor"] = "raises", !["voice"] = "returns"],
     [name \in DOMAIN NoCallbacks |-> "raises"],
     [NoCallbacks EXCEPT !["sensor"] = "returns",
                         !["detection"] = "raises_unprintable"]}

LoopTimestamps == {0, 20}

LoopTimesMs == {I(5), I(20)}

NextLoop ==
    \/ \E cbs \in CallbackSets : register_callbacks(cbs)
    \/ initialize
    \/ \E timestamp_ms \in LoopTimestamps, loop_time_ms \in LoopTimesMs :
           run_single_iteration(timestamp_ms, loop_time_ms)
    \/ pause
    \/ resume
    \/ shutdown

SpecLoop == Init /\ [][NextLoop]_vars

-----------------------------------------------------------------------------
(* The Blend Engine on its own: a BlendConfig, a physics value and an      *)
(* optional SegmentStatistics are drawn, and the two blends are applied.   *)

\* Largest confidence-weighted count among the statistics handed to a blend
MaxCount == 22

BlendConfigs ==
    {BlendConfig(mi, r[1], r[2], m) :
        mi \in {Zero, R(3, 10), One},
        r \in {<<3, 20>>, <<1, 3>>, <<5, 5>>},
        m \in {Zero, R(1, 20), One}}

PhysicsValues == {I(80), I(100)}

\* <<mean, std, max>> of the observed entry speeds
EntrySpeedInputs == {<<I(85), I(2), I(90)>>, <<I(120), I(5), I(130)>>,
                     <<I(60), Zero, I(60)>>}

\* <<latest, mean, std>> of the observed brake points
BrakePointInputs == {<<I(60), I(60), Zero>>, <<I(90), I(100), I(5)>>}

StatisticsInputs ==
    {[SegmentStatistics(1) EXCEPT
         !.observation_count = n,
         !.confidence_weighted_count = I(n),
         !.decay_factor = d,
         !.entry_speed_mean_kmh = e[1], !.entry_speed_std_kmh = e[2],
         !.entry_speed_max_kmh = e[3],
         !.brake_point_latest_m = b[1], !.brake_point_mean_m = b[2],
         !.brake_point_std_m = b[3]] :
        n \in 0..MaxCount, d \in {Zero, R(1, 2), One},
        e \in EntrySpeedInputs, b \in BrakePointInputs}

InitBlendInputs ==
    /\ max_observations = MaxObservations
    /\ InitStore
    /\ InitDecay
    /\ InitEnvelope
    /\ InitVoice
    /\ lap_data = None
    /\ InitRuntime
    /\ lastCall = Call("__init__", None, None)
    /\ config \in BlendConfigs
    /\ physics_value \in PhysicsValues
    /\ stats_arg \in {None} \cup {Some(st) : st \in StatisticsInputs}
    /\ result = NoResult

NextBlend ==
    \/ BlendCornerSpeed
    \/ BlendBrakePoint
    \/ ComputeLearnedWeight

SpecBlend == InitBlendInputs /\ [][NextBlend]_vars

-----------------------------------------------------------------------------
(* Properties of the Blend Engine, checked under SpecBlend.                *)

\* The learned values as the statistics imply them, before any cap by physics
RawLearnedSpeed(st) ==
    RMul(RMin(RAdd(st.entry_speed_mean_kmh, RMul(I(2), st.entry_speed_std_kmh)),
              st.entry_speed_max_kmh),
         st.decay_factor)

RawLearnedBrakePoint(st) ==
    RMax(st.brake_point_latest_m, RSub(st.brake_point_mean_m, st.brake_point_std_m))

\* The effective observation count is at least 3
EnoughData(st) == RLe(I(3), RMul(st.confidence_weighted_count, st.decay_factor))

CornerCalled == result.op = "blend_corner_speed"

BrakeCalled == result.op = "blend_brake_point"

\* C1: whatever the ceiling, the statistics (or none) and the configuration,
\* the blended_value blend_corner_speed returns never exceeds the ceiling.
C1_CornerBlendNeverExceedsCeiling ==
    CornerCalled => RLe(result.ret.blended_value, physics_value)

\* C1 witness: statistics with sufficient data whose learned speed lies above
\* the ceiling were blended with a positive weight.
C1_Witness ==
    /\ CornerCalled
    /\ stats_arg # None
    /\ EnoughData(stats_arg[1])
    /\ RLt(physics_value, RawLearnedSpeed(stats_arg[1]))
    /\ RLt(Zero, result.ret.learned_weight)

\* C2 as stated: whenever blend_corner_speed uses the learned speed, the result
\* lies between the learned speed and the ceiling.
C2_CornerBlendBetweenLearnedAndCeiling ==
    (CornerCalled /\ result.ret.learned_value # None
       /\ ~result.ret.was_physics_limited)
    => /\ RLe(result.ret.learned_value[1], result.ret.blended_value)
       /\ RLe(result.ret.blended_value, physics_value)

\* C3: whenever blend_brake_point uses the learned brake point, the result lies
\* between the physics minimum and the learned point.
C3_BrakeBlendBetweenMinimumAndLearned ==
    (BrakeCalled /\ result.ret.learned_value # None
       /\ ~result.ret.was_physics_limited)
    => /\ RLe(physics_value, result.ret.blended_value)
       /\ RLe(result.ret.blended_value, result.ret.learned_value[1])

\* C3 witness: a learned point earlier than the physics minimum was blended
\* with a positive weight and a positive margin, and the result lies strictly
\* between the two.
C3_Witness ==
    /\ BrakeCalled
    /\ result.ret.learned_value # None
    /\ RLt(Zero, result.ret.learned_weight)
    /\ RLt(Zero, config.learned_safety_margin)
    /\ RLt(physics_value, result.ret.blended_value)
    /\ RLt(result.ret.blended_value, result.ret.learned_value[1])

\* C4 as stated: with sufficient data and a learned brake point later than the
\* physics minimum, blend_brake_point returns the minimum with weight 0 and
\* was_physics_limited set.
C4_LateLearnedBrakePointIsFlagged ==
    (BrakeCalled /\ stats_arg # None /\ EnoughData(stats_arg[1])
       /\ RLt(RawLearnedBrakePoint(stats_arg[1]), physics_value))
    => /\ result.ret.blended_value = physics_value
       /\ result.ret.learned_weight = Zero
       /\ result.ret.was_physics_limited

\* C5 as stated: with sufficient data and a learned corner speed above the
\* ceiling, blend_corner_speed returns the ceiling with weight 0 and
\* was_physics_limited set.
C5_FastLearnedSpeedIsFlagged ==
    (CornerCalled /\ stats_arg # None /\ EnoughData(stats_arg[1])
       /\ RLt(physics_value, RawLearnedSpeed(stats_arg[1])))
    => /\ result.ret.blended_value = physics_value
       /\ result.ret.learned_weight = Zero
       /\ result.ret.was_physics_limited

\* C6: without statistics, or with an effective observation count below 3,
\* both blends return exactly the physics value with learned weight 0.
C6_NoDataReturnsPhysics ==
    ((CornerCalled \/ BrakeCalled)
       /\ (stats_arg = None \/ ~EnoughData(stats_arg[1])))
    => /\ result.ret.blended_value = physics_value
       /\ result.ret.learned_weight = Zero

\* C6 witness: a blend was called with statistics whose confidence-weighted
\* count is at least 3 but whose decay brings the effective count below 3.
C6_Witness ==
    /\ CornerCalled \/ BrakeCalled
    /\ stats_arg # None
    /\ RLe(I(3), stats_arg[1].confidence_weighted_count)
    /\ RLt(Zero, stats_arg[1].decay_factor)
    /\ ~EnoughData(stats_arg[1])

WeightCalled == result.op = "_compute_learned_weight"

EffectiveCount(st) == RMul(st.confidence_weighted_count, st.decay_factor)

\* C7: the weight is 0 below min_obs, equals max_learned_influence from
\* full_obs on, never exceeds max_learned_influence, and no statistics with a
\* larger effective count get a smaller weight.
C7_WeightRampIsMonotoneAndCapped ==
    WeightCalled =>
        LET e == EffectiveCount(stats_arg[1])
            w == result.ret
        IN  /\ RLt(e, I(config.min_observations_for_learning)) => w = Zero
            /\ RLe(I(config.observations_for_full_influence), e)
                   => w = config.max_learned_influence
            /\ RLe(w, config.max_learned_influence)
            /\ \A n \in 0..MaxCount, d \in {Zero, R(1, 2), One} :
                   LET other == [SegmentStatistics(1) EXCEPT
                                    !.confidence_weighted_count = I(n),
                                    !.decay_factor = d]
                   IN  RLe(e, EffectiveCount(other))
                           => RLe(w, _compute_learned_weight(config, other))

\* C7 witness: a weight strictly inside the ramp was computed.
C7_Witness ==
    /\ WeightCalled
    /\ RLt(I(config.min_observations_for_learning), EffectiveCount(stats_arg[1]))
    /\ RLt(EffectiveCount(stats_arg[1]), I(config.observations_for_full_influence))
    /\ RLt(Zero, result.ret)
    /\ RLt(result.ret, config.max_learned_influence)

-----------------------------------------------------------------------------
(* Properties of the Segment Statistics Store, checked under Spec.         *)

\* The observation add_observation was last called with fails the gate
\* (was_clean is false or confidence is below 0.7).
FedRejected(call) ==
    /\ call.op = "add_observation"
    /\ ~call.arg.was_clean \/ RLt(call.arg.confidence, R(7, 10))

\* C8: an add_observation call with was_clean = false or confidence < 0.7
\* leaves every window and every statistics entry as it was, whatever the
\* store holds at that moment.
C8_RejectedObservationChangesNothing ==
    [][FedRejected(lastCall') => UNCHANGED <<observations, stats>>]_vars

\* C8 witness: a rejected observation was fed for a segment that already holds
\* accepted observations, while the other segment still has no entry.
C8_Witness ==
    /\ FedRejected(lastCall)
    /\ lastCall.arg.segment_id \in DOMAIN observations
    /\ Len(observations[lastCall.arg.segment_id]) >= 2
    /\ DOMAIN stats # Segments

\* Every blend of these statistics returns the physics value with weight 0.
BlendsIgnore(st) ==
    \A cfg \in {DefaultBlendConfig, BlendConfig(One, 1, 3, Zero)}, p \in {I(80), I(120)} :
        LET corner == blend_corner_speed(cfg, SpeedEnvelope(p), Some(st))
            brake == blend_brake_point(cfg, BrakeEnvelope(p), Some(st))
        IN  /\ corner.blended_value = p /\ corner.learned_weight = Zero
            /\ brake.blended_value = p /\ brake.learned_weight = Zero

\* C9: right after apply_global_decay(0.0) every segment that had statistics
\* is blended as physics only, and an add_observation call keeps a segment
\* whose decay_factor is 0 at decay_factor 0 and blended as physics only.
C9_ZeroDecayOutlastsObservations ==
    [][/\ (lastCall'.op = "apply_global_decay" /\ lastCall'.arg = Zero)
          => \A s \in DOMAIN stats :
                 /\ s \in DOMAIN stats'
                 /\ stats'[s].decay_factor = Zero
                 /\ BlendsIgnore(stats'[s])
       /\ lastCall'.op = "add_observation"
          => \A s \in DOMAIN stats :
                 stats[s].decay_factor = Zero
                 => /\ s \in DOMAIN stats'
                    /\ stats'[s].decay_factor = Zero
                    /\ BlendsIgnore(stats'[s])]_vars

\* C9 witness: an observation was just accepted for a segment whose
\* decay_factor is 0 and whose window alone would be sufficient data.
C9_Witness ==
    /\ lastCall.op = "add_observation"
    /\ ~FedRejected(lastCall)
    /\ lastCall.arg.segment_id \in DOMAIN stats
    /\ stats[lastCall.arg.segment_id].decay_factor = Zero
    /\ RLe(I(3), stats[lastCall.arg.segment_id].confidence_weighted_count)

\* The statistics st describe the window w and nothing else: the count is the
\* window's length, each mean times the length is the window's sum, each
\* maximum is attained in the window and bounds it, and the latest brake point
\* is the smallest brake distance in the window.
StatsDescribeWindow(st, w) ==
    LET n == Len(w)
        IsMean(m, field) ==
            LET total == SumSeq([i \in 1..n |-> w[i][field]])
            IN  RLe(RMul(m, I(n)), total) /\ RLe(total, RMul(m, I(n)))
        IsMax(m, field) ==
            /\ \E i \in 1..n : w[i][field] = m
            /\ \A i \in 1..n : RLe(w[i][field], m)
        IsMin(m, field) ==
            /\ \E i \in 1..n : w[i][field] = m
            /\ \A i \in 1..n : RLe(m, w[i][field])
    IN  /\ st.observation_count = n
        /\ IsMean(st.entry_speed_mean_kmh, "entry_speed_kmh")
        /\ IsMean(st.brake_point_mean_m, "brake_point_distance_m")
        /\ IsMax(st.entry_speed_max_kmh, "entry_speed_kmh")
        /\ IsMax(st.max_lateral_g_observed, "max_lateral_g")
        /\ IsMin(st.brake_point_latest_m, "brake_point_distance_m")

\* C13: an accepted add_observation leaves the segment's window equal to the
\* last min(n + 1, capacity) entries of the old window followed by the new
\* observation, in arrival order, and leaves the segment's statistics equal
\* to those of that window alone.
C13_WindowIsMostRecentAndStatsFollow ==
    [][(lastCall'.op = "add_observation" /\ ~FedRejected(lastCall'))
       => LET o == lastCall'.arg
              s == o.segment_id
              arrived == Append(IF s \in DOMAIN observations
                                THEN observations[s] ELSE <<>>, o)
              kept == IF Len(arrived) < max_observations
                      THEN Len(arrived) ELSE max_observations
          IN  /\ s \in DOMAIN observations'
              /\ s \in DOMAIN stats'
              /\ observations'[s] =
                     SubSeq(arrived, Len(arrived) - kept + 1, Len(arrived))
              /\ StatsDescribeWindow(stats'[s], observations'[s])]_vars

\* C13 witness: an observation was just accepted into a window that is at
\* capacity and holds passes of different speeds, the newest one last.
C13_Witness ==
    /\ lastCall.op = "add_observation"
    /\ ~FedRejected(lastCall)
    /\ lastCall.arg.segment_id \in DOMAIN observations
    /\ LET w == observations[lastCall.arg.segment_id]
       IN  /\ Len(w) = max_observations
           /\ w[Len(w)] = lastCall.arg
           /\ w[1] # lastCall.arg

-----------------------------------------------------------------------------
(* Properties of the Decay Manager, checked under SpecDecay.               *)

\* update_conditions was the last call and reported at least one trigger
TriggersReported == lastCall.op = "update_conditions" /\ DOMAIN lastCall.ret # {}

\* C10: the factor update_conditions applies to the store is the product of
\* the factors it reports, raised to min_decay_factor (0.1) when below it; a
\* weather change with a tire change applies 0.1, not 0.
C10_AppliedFactorIsFlooredProduct ==
    TriggersReported =>
        LET product == ProductOf(lastCall.ret, DOMAIN lastCall.ret)
            floored == IF RLt(product, R(1, 10)) THEN R(1, 10) ELSE product
        IN  /\ \A s \in DOMAIN stats : stats[s].decay_factor = floored
            /\ DOMAIN lastCall.ret = {"WEATHER_CHANGE", "TIRE_CHANGE"}
               => \A s \in DOMAIN stats : stats[s].decay_factor = R(1, 10)

\* C10 witness: a weather change and a tire change were reported together,
\* with factors 0 and 0.3, over a store holding statistics.
C10_Witness ==
    /\ TriggersReported
    /\ DOMAIN lastCall.ret = {"WEATHER_CHANGE", "TIRE_CHANGE"}
    /\ lastCall.ret["WEATHER_CHANGE"] = Zero
    /\ lastCall.ret["TIRE_CHANGE"] = R(3, 10)
    /\ DOMAIN stats = Segments

\* C12: every stored decay_factor lies in [0, 1], whatever accepted
\* observations, condition snapshots, clock readings and resets came before.
C12_DecayFactorInUnitInterval ==
    \A s \in DOMAIN stats :
        RLe(Zero, stats[s].decay_factor) /\ RLe(stats[s].decay_factor, One)

\* C16: after reset_all_learning, and after reset_segment_learning, the
\* decay_factor of the affected statistics is 0 and the decay history holds a
\* manual-reset event.
C16_ResetsAreRecorded ==
    /\ lastCall.op = "reset_all_learning"
       => /\ \A s \in DOMAIN stats : stats[s].decay_factor = Zero
          /\ "MANUAL_RESET" \in decay_history
    /\ lastCall.op = "reset_segment_learning"
       => /\ lastCall.arg \in DOMAIN stats => stats[lastCall.arg].decay_factor = Zero
          /\ "MANUAL_RESET" \in decay_history

-----------------------------------------------------------------------------
(* Properties of the Decay Manager on a store of default capacity, checked *)
(* under SpecWeather.                                                      *)

\* C11: when update_conditions reports a WEATHER_CHANGE trigger, the factor it
\* reports for that trigger is 0 and, in the state it leaves, every segment
\* with stored statistics is blended as physics only (weight 0, physics value).
C11_WeatherFlipSilencesLearning ==
    (lastCall.op = "update_conditions" /\ "WEATHER_CHANGE" \in DOMAIN lastCall.ret)
    => /\ lastCall.ret["WEATHER_CHANGE"] = Zero
       /\ \A s \in DOMAIN stats : BlendsIgnore(stats[s])

-----------------------------------------------------------------------------
(* Properties of the Envelope Manager, checked under SpecEnvelope.         *)

\* C14: every corner speed envelope the manager holds has
\* envelope_speed_kmh <= physics_ceiling_kmh.value, after build_envelopes and
\* after every update_from_learning, whatever learned speed and weight it got.
C14_EnvelopeSpeedWithinCeiling ==
    \A i \in 1..Len(segment_envelopes) :
        segment_envelopes[i].corner_speed # None
        => RLe(segment_envelopes[i].corner_speed[1].envelope_speed_kmh,
               segment_envelopes[i].corner_speed[1].physics_ceiling_kmh.value)

\* C14 witness: a learned speed above the ceiling was fed back with a weight
\* above the 0.3 cap, and the stored envelope speed is the ceiling itself.
C14_Witness ==
    /\ lastCall.op = "update_from_learning"
    /\ lastCall.ret = TRUE
    /\ \E i \in 1..Len(segment_envelopes) :
          LET cs == segment_envelopes[i].corner_speed[1]
          IN  /\ segment_envelopes[i].segment_id = lastCall.arg[1]
              /\ cs.learned_speed_kmh = Some(I(400))
              /\ cs.learning_confidence = One
              /\ cs.envelope_speed_kmh = cs.physics_ceiling_kmh.value

\* The fields of a SegmentEnvelope other than corner_speed
FrameOf(envelope) ==
    [segment_id |-> envelope.segment_id,
     distance_start_m |-> envelope.distance_start_m,
     distance_end_m |-> envelope.distance_end_m,
     braking |-> envelope.braking, steering |-> envelope.steering,
     combined_grip |-> envelope.combined_grip,
     confidence |-> envelope.confidence]

\* C15: update_from_learning for a held segment returns True and changes at
\* most the corner_speed of that segment's envelope (its other fields, the
\* other envelopes, their order and the track length stay); for a segment id
\* the manager does not hold it returns False and changes nothing.
C15_LearningTouchesOnlyCornerSpeed ==
    [][lastCall'.op = "update_from_learning"
       => LET id == lastCall'.arg[1]
              known == \E i \in 1..Len(segment_envelopes) :
                           segment_envelopes[i].segment_id = id
          IN  /\ lastCall'.ret = known
              /\ track_length_m' = track_length_m
              /\ Len(segment_envelopes') = Len(segment_envelopes)
              /\ \A i \in 1..Len(segment_envelopes) :
                     IF segment_envelopes[i].segment_id = id
                     THEN FrameOf(segment_envelopes'[i])
                              = FrameOf(segment_envelopes[i])
                     ELSE segment_envelopes'[i] = segment_envelopes[i]]_vars

\* C15 witness: a learned speed was just applied to a segment whose envelope
\* carries a braking envelope, in a manager that holds other segments too.
C15_Witness ==
    /\ lastCall.op = "update_from_learning"
    /\ lastCall.ret = TRUE
    /\ Len(segment_envelopes) >= 2
    /\ \E i \in 1..Len(segment_envelopes) :
          /\ segment_envelopes[i].segment_id = lastCall.arg[1]
          /\ segment_envelopes[i].braking # None
          /\ segment_envelopes[i].corner_speed[1].learned_speed_kmh # None

\* Whole laps added to a queried distance
MaxLaps == 2

\* d mod L, as the remainder in 0..L-1 of some whole number of laps
LapRemainder(d, L) ==
    CHOOSE m \in 0..(L - 1) : \E q \in -(MaxLaps + 2)..(MaxLaps + 2) : d = q * L + m

\* The envelopes whose [start, end) range contains the track position m
Containing(m) ==
    {i \in 1..Len(segment_envelopes) :
        /\ segment_envelopes[i].distance_start_m <= m
        /\ m < segment_envelopes[i].distance_end_m}

\* C18: on a track of length L > 0, get_envelope_at_distance(d) returns the
\* envelope whose range contains d mod L (None if there is none) and
\* get_speed_limit_at_distance(d) that envelope's speed (300 if there is
\* none), and both return the same for d + k*L, k a whole number of laps.
C18_QueriesWrapAroundTheTrack ==
    (lastCall.op \in {"get_envelope_at_distance", "get_speed_limit_at_distance"}
     /\ track_length_m > 0)
    => LET d == lastCall.arg
           L == track_length_m
           here == Containing(LapRemainder(d, L))
       IN  IF lastCall.op = "get_envelope_at_distance"
           THEN /\ lastCall.ret = None <=> here = {}
                /\ \A i \in here : lastCall.ret = Some(segment_envelopes[i])
                /\ \A k \in -MaxLaps..MaxLaps :
                       EnvelopeAt(segment_envelopes, L, d + k * L) = lastCall.ret
           ELSE /\ here = {} => lastCall.ret = DefaultMaxKmh
                /\ \A i \in here :
                       lastCall.ret
                         = segment_envelopes[i].corner_speed[1].envelope_speed_kmh
                /\ \A k \in -MaxLaps..MaxLaps :
                       SpeedLimitAt(segment_envelopes, L, d + k * L) = lastCall.ret

\* C18 witness: a distance beyond the finish line, or before the start, was
\* just resolved to an envelope.
C18_Witness ==
    /\ lastCall.op = "get_envelope_at_distance"
    /\ track_length_m > 0
    /\ lastCall.arg >= track_length_m \/ lastCall.arg < 0
    /\ lastCall.ret # None

\* The sampled offsets ahead: 0, 10, 20, ... below the lookahead
SampledOffsets ==
    {off \in 0..(BrakeLookaheadM - 1) : off % ResolutionM = 0}

\* C19: compute_brake_advisory(d, v) returns None exactly when no sampled
\* offset ahead has a speed limit below v; otherwise its advisory is for the
\* smallest such offset, with that point's speed limit as the target.
C19_AdvisoryIsForNearestSlowerPoint ==
    lastCall.op = "compute_brake_advisory"
    => LET d == lastCall.arg[1]
           v == lastCall.arg[2]
           LimitAhead(off) == SpeedLimitAt(segment_envelopes, track_length_m, d + off)
           slower == {off \in SampledOffsets : RLt(LimitAhead(off), v)}
       IN  /\ lastCall.ret = None <=> slower = {}
           /\ lastCall.ret # None
              => /\ lastCall.ret[1].distance_to_corner_m \in slower
                 /\ \A off \in slower : lastCall.ret[1].distance_to_corner_m <= off
                 /\ lastCall.ret[1].target_speed_kmh
                      = LimitAhead(lastCall.ret[1].distance_to_corner_m)

\* C19 witness: an advisory was returned for a point that lies ahead of the
\* car and past the finish line.
C19_Witness ==
    /\ lastCall.op = "compute_brake_advisory"
    /\ lastCall.ret # None
    /\ track_length_m > 0
    /\ lastCall.arg[1] \in 0..(track_length_m - 1)
    /\ lastCall.ret[1].distance_to_corner_m > 0
    /\ lastCall.arg[1] + lastCall.ret[1].distance_to_corner_m >= track_length_m

-----------------------------------------------------------------------------
(* Properties of the Lap Validator, checked under SpecLap.                  *)

\* The five checks in the order the validator documents, and the rejection
\* reasons each of them can give
ChecksInOrder(lap) ==
    <<_check_completeness(lap), _check_confidence(lap),
      _check_sensor_consistency(lap), _check_driver_behavior(lap),
      _check_for_incidents(lap)>>

ReasonsOfCheck ==
    <<{"INCOMPLETE_LAP"}, {"LOW_OVERALL_CONFIDENCE", "CONFIDENCE_DROPOUT"},
      {"SENSOR_DISAGREEMENT"}, {"ABRUPT_CORRECTIONS", "SPIN_DETECTED"},
      {"OFF_TRACK_EXCURSION", "COLLISION_DETECTED"}>>

FailingChecks(lap) ==
    LET checks == ChecksInOrder(lap)
    IN  {i \in 1..5 : ~checks[i].is_valid}

\* C17: validate_lap accepts a lap exactly when completeness, confidence,
\* sensor consistency, driver behaviour and incidents all pass, and otherwise
\* returns the rejection of the earliest check in that order that fails.
C17_EarliestFailingCheckDecides ==
    lastCall.op = "validate_lap"
    => LET lap == lap_data[1]
           verdict == lastCall.ret[1]
           checks == ChecksInOrder(lap)
           failing == {i \in 1..5 : ~checks[i].is_valid}
       IN  /\ verdict.is_valid <=> failing = {}
           /\ verdict.is_valid => verdict.rejection_reason = "NONE"
           /\ \A i \in failing :
                  (\A j \in failing : i <= j)
                  => /\ verdict = checks[i]
                     /\ verdict.rejection_reason \in ReasonsOfCheck[i]

\* C17 witness: a complete lap that fails the confidence check, the driver
\* behaviour check and the incident check was just rejected.
C17_Witness ==
    /\ lastCall.op = "validate_lap"
    /\ {2, 4, 5} \subseteq FailingChecks(lap_data[1])
    /\ 1 \notin FailingChecks(lap_data[1])
    /\ ~lastCall.ret[1].is_valid

-----------------------------------------------------------------------------
(* Properties of the arbitration engine, checked under SpecVoice.          *)

\* C20: a request whose confidence is below 0.85 is answered with SUPPRESS,
\* whatever the phase, whether or not speech is in progress and even for a
\* critical phrase, and the queue, the last-spoken record and the message
\* counters stay as they were.
C20_LowConfidenceIsSilenced ==
    [][(/\ lastCall'.op = "submit_request"
        /\ RLt(lastCall'.arg[1].confidence, R(17, 20)))
       => /\ lastCall'.ret[1].action = "SUPPRESS"
          /\ engine' = engine
          /\ cognitive' = cognitive]_vars

\* A critical phrase with confidence 0.5 was refused while speech was in
\* progress, a request was waiting and a message had been spoken this lap.
C20_Witness ==
    /\ lastCall.op = "submit_request"
    /\ lastCall.arg[1].phrase_key = "INSTABILITY"
    /\ RLt(lastCall.arg[1].confidence, R(17, 20))
    /\ lastCall.ret[1].action = "SUPPRESS"
    /\ lastCall.ret[1].reason = <<"low_confidence">>
    /\ engine.is_speaking
    /\ engine.current_phase = "approach"
    /\ engine.pending_requests # <<>>
    /\ cognitive.messages_this_lap > 0

\* C21: while the current phase is APEX no request for a non-critical phrase
\* is answered SPEAK or QUEUE; only INSTABILITY and LIMIT can be approved there.
C21_ApexOnlyCritical ==
    [][(/\ lastCall'.op = "submit_request"
        /\ engine.current_phase = "apex"
        /\ ~is_critical(lastCall'.arg[1]))
       => lastCall'.ret[1].action \notin {"SPEAK", "QUEUE"}]_vars

\* At the apex a confident request for WAIT_THROTTLE, a phrase allowed in
\* that phase, was refused by the cognitive gate.
C21_Witness ==
    /\ lastCall.op = "submit_request"
    /\ engine.current_phase = "apex"
    /\ lastCall.arg[1].phrase_key = "WAIT_THROTTLE"
    /\ ~RLt(lastCall.arg[1].confidence, R(17, 20))
    /\ lastCall.ret[1].action = "SUPPRESS"
    /\ lastCall.ret[1].reason = <<"cognitive_load", "apex_phase">>

\* C22: once submit_request has answered SPEAK for a phrase key at time t, a
\* further request for the same key with a timestamp in [t, t + 5000 ms) is
\* answered SUPPRESS (stated here for the request that follows at once).
C22_RepeatWithinFiveSecondsSuppressed ==
    [][(/\ lastCall.op = "submit_request"
        /\ lastCall.ret[1].action = "SPEAK"
        /\ lastCall'.op = "submit_request"
        /\ lastCall'.arg[1].phrase_key = lastCall.arg[1].phrase_key
        /\ lastCall'.arg[1].timestamp_ms >= lastCall.arg[1].timestamp_ms
        /\ lastCall'.arg[1].timestamp_ms < lastCall.arg[1].timestamp_ms + 5000)
       => lastCall'.ret[1].action = "SUPPRESS"]_vars

\* The number of places of requests that hold r
CountIn(requests, r) == Cardinality({i \in 1..Len(requests) : requests[i] = r})

\* The places of pending whose request is missing from the queue after the step
Displaced(pending, after, request) ==
    {i \in 1..Len(pending) :
        LET kept == [j \in 1..(Len(pending) - 1) |->
                        IF j < i THEN pending[j] ELSE pending[j + 1]]
            stayed == SubSeq(after, 1, Len(after) - 1)
        IN  /\ after[Len(after)] = request
            /\ Len(stayed) = Len(kept)
            /\ \A j \in 1..Len(kept) : CountIn(stayed, kept[j]) = CountIn(kept, kept[j])}

\* C25: when a request is queued while the queue already holds
\* max_queue_size requests, the request removed has the largest priority
\* number of those queued.
C25_EvictsLowestPriority ==
    [][(/\ lastCall'.op = "submit_request"
        /\ lastCall'.ret[1].action = "QUEUE"
        /\ Len(engine.pending_requests) >= ArbitrationConfig.max_queue_size)
       => \E i \in Displaced(engine.pending_requests, engine'.pending_requests,
                             lastCall'.arg[1]) :
             \A j \in 1..Len(engine.pending_requests) :
                 _PHRASES[engine.pending_requests[j].phrase_key].priority
                     <= _PHRASES[engine.pending_requests[i].phrase_key].priority]_vars

-----------------------------------------------------------------------------
(* Properties of build_envelopes, checked under SpecEnvelope.              *)

\* The envelope build_envelopes stored for a segment
StoredFor(segment) ==
    segment_envelopes[CHOOSE i \in 1..Len(segment_envelopes) :
                          segment_envelopes[i].segment_id = segment.segment_id]

\* The corners of the track
CornersOf(track) ==
    {track.segments[i] : i \in {j \in 1..Len(track.segments) :
                                    track.segments[j].is_corner}}

\* The metres driven from the segment's end to the corner's start
MetresAhead(segment, corner, track) ==
    (corner.start_distance_m - segment.end_distance_m) % track.total_length_m

\* The corner met first when driving on from the segment's end
FirstCornerAhead(segment, track) ==
    CHOOSE c \in CornersOf(track) :
        \A d \in CornersOf(track) :
            MetresAhead(segment, c, track) <= MetresAhead(segment, d, track)

\* C23: on a track with a corner, build_envelopes computes the braking
\* envelope of every non-corner segment against the first corner ahead of the
\* segment's end, wrapping past the finish line; corner segments get none.
C23_BrakingAgainstFirstCornerAhead ==
    lastCall.op = "build_envelopes" =>
        LET track == lastCall.arg
        IN  \A i \in 1..Len(track.segments) :
                LET segment == track.segments[i]
                IN  IF segment.is_corner
                    THEN StoredFor(segment).braking = None
                    ELSE CornersOf(track) # {} =>
                             /\ StoredFor(segment).braking # None
                             /\ _find_next_corner(segment, track)
                                    = Some(FirstCornerAhead(segment, track))

\* C24: the braking envelope stored for a non-corner segment has as target
\* speed the envelope speed of the corner located for it, not the speed
\* envelope of the segment itself.
C24_BrakingTargetsTheCornerSpeed ==
    lastCall.op = "build_envelopes" =>
        LET track == lastCall.arg
        IN  \A i \in 1..Len(track.segments) :
                LET segment == track.segments[i]
                    located == _find_next_corner(segment, track)
                IN  (~segment.is_corner /\ StoredFor(segment).braking # None) =>
                        StoredFor(segment).braking[1].target_speed_kmh
                            = StoredFor(located[1]).corner_speed[1].envelope_speed_kmh

-----------------------------------------------------------------------------
(* A further property of the Decay Manager, checked under SpecDecay.       *)

\* C30: no Decay Manager operation raises a segment's decay_factor; trust
\* removed by a condition change or a manual reset is not restored by a later
\* update_conditions or apply_age_decay.
C30_DecayFactorNeverRaised ==
    [][lastCall'.op \in {"update_conditions", "apply_age_decay",
                         "reset_all_learning", "reset_segment_learning"}
       => \A s \in DOMAIN stats :
              s \in DOMAIN stats'
                  => RLe(stats'[s].decay_factor, stats[s].decay_factor)]_vars

-----------------------------------------------------------------------------
(* Properties of the mode controller, checked under SpecMode.              *)

\* C26: whenever the controller is DEGRADED and update_state reports a
\* confidence and a sensor-issue count that meet the requirements of the mode
\* it was in just before degrading, it leaves DEGRADED and returns to that
\* mode, after any number of degrade and recover cycles.
C26_RecoversToModeBeforeDegrading ==
    [][(/\ lastCall'.op = "update_state"
        /\ controller.current_mode = "DEGRADED"
        /\ mode_trace.degraded_from # None
        /\ RLe(MODE_REQUIREMENTS[mode_trace.degraded_from[1]].min_confidence,
               lastCall'.arg[1].confidence)
        /\ lastCall'.arg[1].sensor_issues
               <= MODE_REQUIREMENTS[mode_trace.degraded_from[1]].max_sensor_issues)
       => controller'.current_mode = mode_trace.degraded_from[1]]_vars

\* C27: starting from SILENT and using update_state only, the controller is
\* in LEARNING only after a report of at least 1 clean lap with coverage of
\* at least 0.90, in COACHING only after a report of at least 3 clean laps
\* with coverage of at least 0.95, and voice is never enabled before a clean
\* lap has been reported.
C27_ModesAreEarned ==
    ~mode_trace.forced =>
        /\ controller.current_mode = "LEARNING" => mode_trace.reported_for_learning
        /\ controller.current_mode = "COACHING" => mode_trace.reported_for_coaching
        /\ voice_enabled(controller) => mode_trace.reported_clean_lap

-----------------------------------------------------------------------------
(* Properties of the main loop, checked under SpecLoop.                    *)

\* C28: after max_consecutive_errors iterations in a row in which a phase
\* callback raised the loop is DEGRADED, and an iteration in which no phase
\* fails sets the consecutive-error count to 0.
C28_RaisingCallbacksDegrade ==
    lastCall.op = "run_single_iteration" =>
        /\ failing_streak >= LoopConfig.max_consecutive_errors
               => loop.state = "DEGRADED"
        /\ failing_streak = 0 => loop.consecutive_errors = 0

\* C29: once pause() or shutdown() has been called, run_single_iteration
\* does not put the loop back into RUNNING: it stays PAUSED until resume()
\* and stays SHUTDOWN for good.
C29_IterationKeepsPausedAndShutdown ==
    [][(/\ lastCall'.op = "run_single_iteration"
        /\ loop.state \in {"PAUSED", "SHUTDOWN"})
       => loop'.state = loop.state]_vars

=============================================================================
